---- MODULE Spec2Model ----
(***************************************************************************)
(* State-machine model of the sf-agent request orchestration core:         *)
(*   - kapso/message_deduplicator.py : the TTL dedup cache                  *)
(*   - kapso/use_kapso.py            : the webhook turn (use_kapso,         *)
(*                                     handle_response) on the event loop   *)
(*   - demo/api/langgraph_agents.py  : the LangGraph workflow               *)
(* Three specifications share the variables; each one holds the variables  *)
(* of the other parts at their initial value.                               *)
(*   SpecDedup : a driver calling the MessageDeduplicator API directly      *)
(*   SpecKapso : concurrent webhook deliveries through use_kapso            *)
(*   SpecGraph : one run of the workflow graph                              *)
(***************************************************************************)
EXTENDS Integers, Sequences, FiniteSets, TLC

VARIABLES
    processed_messages, \* MessageDeduplicator.processed_messages: id -> timestamp
    now,                \* the value time.time() returns
    lastMark,           \* history: id -> time of its latest mark, -1 when never marked
    lastOp,             \* SpecDedup: the last API call and what it returned
    prevOp,             \* SpecDedup: the API call before it
    loop,               \* SpecKapso: the delivery whose coroutine runs on the event loop, or 0
    pc,                 \* SpecKapso: delivery -> position of its coroutine
    webhook,            \* SpecKapso: delivery -> the webhook_data it carries
    result,             \* SpecKapso: delivery -> what use_kapso returned
    hist,               \* SpecKapso: delivery -> history of the turn (calls made)
    node,               \* SpecGraph: the node the graph runs next, "END" at the end
    intent_validated,   \* SpecGraph: IntentClassification rejects an unknown intent_type
    raw_query,          \* GraphState.raw_query
    intent,             \* GraphState.intent
    product_ideas,      \* GraphState.product_ideas
    final_products,     \* GraphState.final_products
    response_message,   \* GraphState.response_message
    notification_sent,  \* GraphState.notification_sent
    trace,              \* SpecGraph: history, the nodes run so far, in order
    searches,           \* SpecGraph: history, the queries sent to the vector store
    emails,             \* SpecGraph: history, notification messages assembled
    llm_classify,       \* SpecGraph: history, how the classification's completion call went
    search_calls,       \* SpecGraph: history, the searches handed to the vector store
    llm_ideas,          \* SpecGraph: history, how generate_ideas' completion call went
    ask,                \* SpecAsk: one call of ask_agent_logic, its inputs and its outcome
    raw_event,          \* SpecNormalize: the webhook_data handed to normalize_kapso_webhook
    normalized,         \* SpecNormalize: what the call gave back
    lock,               \* SpecLock: the thread that holds MessageDeduplicator.lock, or 0
    threads,            \* SpecLock: thread -> the call it is in and how far it got
    filter_constraints, \* SpecFilter: the Constraints the filter is built from
    filters,            \* SpecFilter: the filters search_rag and _build_filter built
    rag                 \* SpecSearch: one call of search_rag, its inputs and what it returned

driverVars == <<lastOp, prevOp>>
kapsoVars == <<loop, pc, webhook, result, hist>>
graphVars == <<node, intent_validated, raw_query, intent, product_ideas, final_products,
               response_message, notification_sent, trace, searches, emails,
               llm_classify, search_calls, llm_ideas>>
askVars == <<ask>>
normVars == <<raw_event, normalized>>
lockVars == <<lock, threads>>
filterVars == <<filter_constraints, filters>>
ragVars == <<rag>>
otherVars == <<askVars, normVars, lockVars, filterVars, ragVars>>
vars == <<processed_messages, now, lastMark, driverVars, kapsoVars, graphVars, otherVars>>

None == "None"

\* The parts of the state a specification does not use stay as they are here.
AskIdle == ask = None
NormIdle == raw_event = None /\ normalized = None
LockIdle == lock = 0 /\ threads = None
FilterIdle == filter_constraints = None /\ filters = None
RagIdle == rag = None
OtherIdle == AskIdle /\ NormIdle /\ LockIdle /\ FilterIdle /\ RagIdle

(***************************************************************************)
(* Bounds of the model.                                                    *)
(***************************************************************************)
MaxTicks == 3           \* the clock advances at most this many times
MaxKeys == 2            \* longest id list handed to the dedup API
NumDeliveries == 2      \* webhook deliveries in flight

(***************************************************************************)
(* Program constants.                                                      *)
(***************************************************************************)
ttl_seconds == 3600     \* MessageDeduplicator(ttl_seconds=3600)

\* The clock advances by half a TTL per tick, so an entry's age takes the
\* values 0, ttl/2, ttl (not yet expired) and 3*ttl/2 (expired).
TickStep == ttl_seconds \div 2
MaxTime == MaxTicks * TickStep

MessageIds == {"m1", "m2"}

Range(s) == {s[i] : i \in DOMAIN s}

IdLists == UNION {[1..n -> MessageIds] : n \in 0..MaxKeys}

(***************************************************************************)
(* MessageDeduplicator                                                     *)
(***************************************************************************)

\* A cleanup that purges an entry as soon as its age reaches the TTL.
cleanup_purges_at_ttl(pm, t) ==
    LET keep == {k \in DOMAIN pm : ~(t - pm[k] >= ttl_seconds)}
    IN  [k \in keep |-> pm[k]]

\* A cleanup that never purges.
cleanup_keeps_everything(pm, t) == pm

\* _cleanup_expired_entries: delete every entry with current_time - timestamp > ttl.
cleanup_expired_entries(pm, t) ==
    LET expired_ids == {k \in DOMAIN pm : t - pm[k] > ttl_seconds}
    IN  [k \in DOMAIN pm \ expired_ids |-> pm[k]]

\* A loop that returns at its first pass, whatever it finds.
first_in_cache(pm, message_ids) ==
    IF message_ids = <<>> THEN FALSE ELSE Head(message_ids) \in DOMAIN pm

\* The loop of are_messages_already_processed: True at the first id present.
RECURSIVE any_in_cache(_, _)
any_in_cache(pm, message_ids) ==
    IF message_ids = <<>> THEN FALSE
    ELSE IF Head(message_ids) \in DOMAIN pm THEN TRUE
    ELSE any_in_cache(pm, Tail(message_ids))

\* A check that holds every id of the list present, also when there is none.
check_all_present(pm, message_ids, t) ==
    LET cleaned == cleanup_expired_entries(pm, t)
    IN  [result |-> \A i \in 1..Len(message_ids) : message_ids[i] \in DOMAIN cleaned,
         cache |-> cleaned]

\* A check that does not clean up.
check_without_cleanup(pm, message_ids, t) ==
    [result |-> any_in_cache(pm, message_ids), cache |-> pm]

\* are_messages_already_processed: the value returned and the cache it leaves.
\* An empty list returns False before the lock and the cleanup.
are_messages_already_processed(pm, message_ids, t) ==
    IF message_ids = <<>>
    THEN [result |-> FALSE, cache |-> pm]
    ELSE LET cleaned == cleanup_expired_entries(pm, t)
         IN  [result |-> any_in_cache(cleaned, message_ids), cache |-> cleaned]

\* A mark that records the first id of the list only.
mark_first_message_only(pm, message_ids, t) ==
    IF message_ids = <<>>
    THEN pm
    ELSE [k \in DOMAIN pm \cup {Head(message_ids)} |->
            IF k = Head(message_ids) THEN t ELSE pm[k]]

\* A mark that purges the expired entries first.
mark_after_cleanup(pm, message_ids, t) ==
    LET cleaned == cleanup_expired_entries(pm, t)
    IN  IF message_ids = <<>>
        THEN cleaned
        ELSE [k \in DOMAIN cleaned \cup Range(message_ids) |->
                IF k \in Range(message_ids) THEN t ELSE cleaned[k]]

\* A mark that records nothing.
mark_messages_never(pm, message_ids, t) == pm

\* mark_messages_as_processed: every id of the list gets the current time.
mark_messages_as_processed(pm, message_ids, t) ==
    IF message_ids = <<>>
    THEN pm
    ELSE [k \in DOMAIN pm \cup Range(message_ids) |->
            IF k \in Range(message_ids) THEN t ELSE pm[k]]

\* get_cache_stats: cleanup, then the statistics.
get_cache_stats(pm, t) ==
    LET cleaned == cleanup_expired_entries(pm, t)
        ages == {t - cleaned[k] : k \in DOMAIN cleaned}
    IN  [cache |-> cleaned,
         total_entries |-> Cardinality(DOMAIN cleaned),
         oldest_entry_age |->
            IF ages = {} THEN 0 ELSE CHOOSE a \in ages : \A b \in ages : a <= b]

EmptyCache == [k \in {} |-> 0]

NoOp == [op |-> "none", ids |-> <<>>, time |-> 0, result |-> FALSE]

(***************************************************************************)
(* Webhook payloads (the inputs of use_kapso).                             *)
(* An item of data[] keeps what use_kapso and handle_response read: the    *)
(* message id, its message_type and content, and the conversation id.      *)
(***************************************************************************)
\* An item whose message also carries the id WhatsApp gave it.
WaItem(id, whatsapp_message_id, mtype, content, conv) ==
    [id |-> id, whatsapp_message_id |-> whatsapp_message_id, message_type |-> mtype,
     content |-> content, conversation_id |-> conv]

Item(id, mtype, content, conv) == WaItem(id, None, mtype, content, conv)

Received == "whatsapp.message.received"

Payload(type, data) == [type |-> type, data |-> data]

Webhooks ==
    { Payload(Received, <<Item("m1", "text", "hola", "c1")>>),
      Payload(Received, <<Item("m1", "text", "hola", "c1"),
                          Item("m2", "image", "foto", "c1")>>),
      Payload(Received, <<Item("m2", "sticker", "", "c1")>>),
      Payload(Received, <<Item(None, "text", "hola", "c1")>>),
      Payload(Received, <<Item("m2", "text", "  ", None)>>),
      Payload(Received, <<Item("m1", "text", "precio", None)>>),
      Payload(Received, <<WaItem("m1", "w1", "text", "hola", "c1")>>),
      Payload(Received, <<WaItem("m2", "w1", "text", "hola", "c1")>>),
      Payload(Received, <<>>),
      Payload("whatsapp.message.sent", <<Item("m1", "text", "hola", "c1")>>) }

NoWebhook == Payload(None, <<>>)

\* normalize_kapso_webhook, as far as use_kapso depends on it: one normalized
\* item per item of data, none when data is empty.
normalize_kapso_webhook(webhook_data) == webhook_data.data

\* The loop of extract_message_ids_from_webhook: the truthy message ids, in
\* data order.
RECURSIVE extract_ids(_)
extract_ids(data_list) ==
    IF data_list = <<>> THEN <<>>
    ELSE LET msg_id == Head(data_list).id
         IN  (IF msg_id # None THEN <<msg_id>> ELSE <<>>) \o extract_ids(Tail(data_list))

extract_message_ids_from_webhook(webhook_data) == extract_ids(webhook_data.data)

\* MessageDeduplicator.extract_message_ids: for each message the key
\* wa:<whatsapp_message_id> when it has one, then kapso:<id> when it has
\* one. A key is the pair of its prefix and the id. No caller in the
\* repository uses it: use_kapso line 38 calls the function above.
RECURSIVE extract_message_ids(_)
extract_message_ids(data_list) ==
    IF data_list = <<>> THEN <<>>
    ELSE LET message == Head(data_list)
         IN  (IF message.whatsapp_message_id # None
              THEN <<<<"wa", message.whatsapp_message_id>>>> ELSE <<>>)
             \o (IF message.id # None THEN <<<<"kapso", message.id>>>> ELSE <<>>)
             \o extract_message_ids(Tail(data_list))

\* str.strip() on the contents the payloads carry.
Strip(content) == IF content = "  " THEN "" ELSE content

FilteredTypes == {"reaction", "sticker", "image"}

\* A loop without the type filter of line 100.
RECURSIVE combined_parts_of_every_type(_)
combined_parts_of_every_type(data_list) ==
    IF data_list = <<>> THEN <<>>
    ELSE LET message_content == Strip(Head(data_list).content)
         IN  (IF message_content # "" THEN <<message_content>> ELSE <<>>)
             \o combined_parts_of_every_type(Tail(data_list))

\* handle_response, lines 93-113: the contents that make up combined_message.
RECURSIVE combined_message_parts(_)
combined_message_parts(data_list) ==
    IF data_list = <<>> THEN <<>>
    ELSE LET data == Head(data_list)
             message_content == Strip(data.content)
             part == IF data.message_type \in FilteredTypes THEN <<>>
                     ELSE IF message_content # "" THEN <<message_content>>
                     ELSE <<>>
         IN  part \o combined_message_parts(Tail(data_list))

\* The mappings use_kapso and handle_response return. A key the mapping does
\* not carry is "absent"; kind "None" is a call that returned no mapping.
Result(status, message, processed, duplicate) ==
    [kind |-> "dict", status |-> status, message |-> message,
     processed |-> processed, duplicate |-> duplicate]

ResultNoData == Result("success", "Webhook sin datos validos", "False", "absent")
ResultDuplicate == Result("success", "Webhook duplicado - mensajes ya procesados", "False", "True")
ResultOmitted == Result("success", "Mensajes sin contenido omitidos", "absent", "absent")
ResultSent == Result("success", "Respuesta enviada", "absent", "absent")
ResultError == Result("error", "Error interno del servidor", "absent", "absent")
ResultNone == [kind |-> "None", status |-> "absent", message |-> "absent",
               processed |-> "absent", duplicate |-> "absent"]
NoResult == [kind |-> "pending", status |-> "absent", message |-> "absent",
             processed |-> "absent", duplicate |-> "absent"]

Deliveries == 1..NumDeliveries

NoHist ==
    [read_marked |-> 0,     \* calls of mark_whatsapp_messages_as_read_batch
     agent_calls |-> 0,     \* calls of ask_agent_logic
     agent_items |-> FALSE, \* the agent's response carries items
     sends |-> 0,           \* messages KapsoClient.send_message has sent
     read_outcome |-> "none", \* how the awaited read-marking ended
     query |-> <<>>,        \* the parts of the query ask_agent_logic was given
     send_failed |-> FALSE] \* KapsoClient.send_message raised

KapsoIdle ==
    /\ loop = 0
    /\ pc = [d \in Deliveries |-> "idle"]
    /\ webhook = [d \in Deliveries |-> NoWebhook]
    /\ result = [d \in Deliveries |-> NoResult]
    /\ hist = [d \in Deliveries |-> NoHist]

\* An await between the duplicate check and the mark.
YieldsBeforeMark(p) == p \in {"mark", "await_read", "await_agent", "await_send", "done"}

\* The positions at which a coroutine gives the event loop back: its awaits
\* (handle_response lines 119, 142, 157) and its return. use_kapso has no
\* await between line 41 (check) and line 52 (mark), nor before line 119.
Yields(p) == p \in {"await_read", "await_agent", "await_send", "done"}

\* The coroutine of delivery d may take its next step: it holds the event
\* loop, or the loop is free.
CanRun(d) == loop \in {0, d}

Returns(d, r) ==
    /\ pc' = [pc EXCEPT ![d] = "done"]
    /\ result' = [result EXCEPT ![d] = r]
    /\ loop' = IF Yields("done") THEN 0 ELSE d

Goes(d, p) ==
    /\ pc' = [pc EXCEPT ![d] = p]
    /\ loop' = IF Yields(p) THEN 0 ELSE d
    /\ UNCHANGED result

\* whatsapp_agent, main.py line 394: the request body has arrived and the
\* coroutine is ready to call use_kapso. Deliveries are numbered in the
\* order they arrive.
Deliver(d, w) ==
    /\ pc[d] = "idle"
    /\ IF d = 1 THEN TRUE ELSE pc[d - 1] # "idle"
    /\ pc' = [pc EXCEPT ![d] = "start"]
    /\ webhook' = [webhook EXCEPT ![d] = w]
    /\ UNCHANGED <<processed_messages, now, lastMark, driverVars, graphVars, otherVars, loop, result, hist>>

\* use_kapso lines 19-50: the type test, the normalization, the id
\* extraction and the duplicate check.
UseKapsoCheck(d) ==
    /\ pc[d] = "start"
    /\ CanRun(d)
    /\ LET webhook_data == webhook[d]
           data_list == normalize_kapso_webhook(webhook_data)
           message_ids == extract_message_ids_from_webhook(webhook_data)
           r == are_messages_already_processed(processed_messages, message_ids, now)
       IN  IF webhook_data.type # Received
           THEN /\ Returns(d, ResultNone)
                /\ UNCHANGED processed_messages
           ELSE IF data_list = <<>>
           THEN /\ Returns(d, ResultNoData)
                /\ UNCHANGED processed_messages
           ELSE /\ processed_messages' = r.cache
                /\ IF message_ids # <<>> /\ r.result
                   THEN Returns(d, ResultDuplicate)
                   ELSE Goes(d, "mark")
    /\ UNCHANGED <<now, lastMark, driverVars, graphVars, otherVars, webhook, hist>>

\* use_kapso line 52.
UseKapsoMark(d) ==
    /\ pc[d] = "mark"
    /\ CanRun(d)
    /\ LET message_ids == extract_message_ids_from_webhook(webhook[d])
       IN  processed_messages' =
               mark_messages_as_processed(processed_messages, message_ids, now)
    /\ lastMark' = [k \in MessageIds |->
                        IF k \in Range(extract_message_ids_from_webhook(webhook[d]))
                        THEN now ELSE lastMark[k]]
    /\ Goes(d, "handle")
    /\ UNCHANGED <<now, driverVars, graphVars, otherVars, webhook, hist>>

\* handle_response lines 68-119: the messages are combined; with nothing
\* left the turn ends, otherwise the read-marking is awaited.
HandleResponse(d) ==
    /\ pc[d] = "handle"
    /\ CanRun(d)
    /\ IF combined_message_parts(normalize_kapso_webhook(webhook[d])) = <<>>
       THEN /\ Returns(d, ResultOmitted)
            /\ UNCHANGED hist
       ELSE /\ Goes(d, "await_read")
            /\ hist' = [hist EXCEPT ![d].read_marked = @ + 1]
    /\ UNCHANGED <<processed_messages, now, lastMark, driverVars, graphVars, otherVars, webhook>>

\* How the await of mark_whatsapp_messages_as_read_batch at line 119 ends:
\* the batch returns its success mapping, returns a failure mapping (a call
\* answered with an error status, utils.py lines 198-203), returns a
\* failure mapping after the 10 s timeout of a call (utils.py lines
\* 205-212), or raises (the id filter of utils.py line 247 is outside its
\* try).
ReadOutcomes == {"success", "failure", "timeout", "raise"}

\* The except of lines 120-121 that would let the error of the read-marking
\* leave handle_response.
turn_fails_with_read_mark(read_outcome, whatsapp_conversation_id) ==
    IF read_outcome = "raise" \/ whatsapp_conversation_id = None THEN "error" ELSE "agent"

\* handle_response lines 118-131, what follows the read-marking: its
\* mapping is discarded and its error is caught at line 120. User(...)
\* refuses a conversation_id of None (models.py line 14), and that error
\* leaves handle_response for the except of use_kapso, line 58; otherwise
\* the agent is asked.
turn_after_read_mark(read_outcome, whatsapp_conversation_id) ==
    IF whatsapp_conversation_id = None THEN "error" ELSE "agent"

\* handle_response lines 119-142: the awaited read-marking has ended with
\* read_outcome and the coroutine resumes; ask_agent_logic is started in
\* the executor unless User(...) raised.
AfterReadMark(d, read_outcome) ==
    /\ pc[d] = "await_read"
    /\ CanRun(d)
    /\ LET whatsapp_conversation_id ==
               normalize_kapso_webhook(webhook[d])[1].conversation_id
       IN  IF turn_after_read_mark(read_outcome, whatsapp_conversation_id) = "error"
           THEN /\ Returns(d, ResultError)
                /\ hist' = [hist EXCEPT ![d].read_outcome = read_outcome]
           ELSE /\ Goes(d, "await_agent")
                /\ hist' = [hist EXCEPT ![d].agent_calls = @ + 1,
                                        ![d].read_outcome = read_outcome,
                                        ![d].query = combined_message_parts(
                                            normalize_kapso_webhook(webhook[d]))]
    /\ UNCHANGED <<processed_messages, now, lastMark, driverVars, graphVars, otherVars, webhook>>

AgentOutcomes == {"items", "no_items", "raise"}

\* An except at line 160 that reports the failure to the caller.
handle_response_result_surfaced(raised) == IF raised THEN ResultError ELSE ResultSent

\* handle_response lines 141-169: whether or not the try of the agent and
\* the replies raised (the except of line 160 only logs), the function
\* returns the mapping of line 165.
handle_response_result(raised) == ResultSent

\* handle_response lines 142-157: ask_agent_logic returned a response with
\* or without items, or raised (caught at line 160; the turn still returns
\* the mapping of line 165).
AfterAgent(d, outcome) ==
    /\ pc[d] = "await_agent"
    /\ CanRun(d)
    /\ IF outcome = "raise"
       THEN /\ Returns(d, handle_response_result(TRUE))
            /\ UNCHANGED hist
       ELSE /\ Goes(d, "await_send")
            /\ hist' = [hist EXCEPT ![d].agent_items = (outcome = "items")]
    /\ UNCHANGED <<processed_messages, now, lastMark, driverVars, graphVars, otherVars, webhook>>

\* handle_response lines 145-169, _send_replies: the reply, then the product
\* details when the response has items. Without an error every message
\* went out; when KapsoClient.send_message raised (client.py lines 211-221:
\* the post, or raise_for_status, or the return of an unparsed response),
\* sent is the number of messages that had gone out. The error is caught at
\* line 160.
AfterSend(d, sent, raised) ==
    /\ pc[d] = "await_send"
    /\ CanRun(d)
    /\ LET expected == IF hist[d].agent_items THEN 2 ELSE 1
       IN  IF raised THEN sent <= expected ELSE sent = expected
    /\ hist' = [hist EXCEPT ![d].sends = sent, ![d].agent_items = FALSE,
                            ![d].send_failed = raised]
    /\ Returns(d, handle_response_result(raised))
    /\ UNCHANGED <<processed_messages, now, lastMark, driverVars, graphVars, otherVars, webhook>>


(***************************************************************************)
(* The LangGraph workflow of demo/api/langgraph_agents.py.                 *)
(* Confidences are in hundredths (0.6 is 60). A product card is its        *)
(* product_id.                                                             *)
(***************************************************************************)
RawQueries == {"black shirt", "beach vacation"}

KnownIntentTypes == {"direct_product_search", "contextual_use_case", "off_topic"}

\* What the completion service may put in intent_type.
IntentTypes == KnownIntentTypes \cup {"weather_question"}

Confidences == {50, 59, 60, 100}

KeywordLists == {<<>>, <<"shirt">>, <<"shirt", "black">>}

\* A price bound that is None.
NoPrice == -1

\* Constraints (models.py): a text field is None, "" or a value; a price bound
\* is None or a number >= 0. The classification replies of the model set
\* category and price_max only.
Constraints(category, price_max) ==
    [category |-> category, brand |-> None, color |-> None, size |-> None,
     price_min |-> NoPrice, price_max |-> price_max]

NoConstraints == Constraints(None, NoPrice)

ConstraintSets == {NoConstraints, Constraints("shoes", 100)}

IntentClassification(type, confidence, keywords, constraints) ==
    [intent_type |-> type, confidence |-> confidence,
     extracted_keywords |-> keywords, inferred_constraints |-> constraints]

\* GraphState.intent = None (run_agent_workflow, line 610).
NoIntent == IntentClassification(None, 0, <<>>, NoConstraints)

\* The ways the completion call and the parsing of its text fail: the call
\* raises, json.loads raises, a key of the object is missing, Constraints
\* refuses a value.
LlmFailures == {"call_fails", "not_json", "missing_key", "bad_constraints"}

\* A reply of the completion service to classify_intent's prompt.
ClassifyReplies ==
    [kind : LlmFailures, parsed : {NoIntent}] \cup
    [kind : {"json"},
     parsed : {IntentClassification(t, c, k, n) :
                  t \in IntentTypes, c \in Confidences,
                  k \in KeywordLists, n \in ConstraintSets}]

\* Whether IntentClassification(...) accepts the parsed object. The class is
\* not part of the sources at hand: intent_validated says whether it
\* restricts intent_type to the three types of the prompt.
IntentClassificationAccepts(parsed) ==
    intent_validated => parsed.intent_type \in KnownIntentTypes

FallbackConfidence == 50

\* A fallback that gives up on the query.
FallbackOffTopic(query) ==
    IntentClassification("off_topic", FallbackConfidence, <<query>>, NoConstraints)

\* classify_intent, lines 160-171.
FallbackIntent(query) ==
    IntentClassification("direct_product_search", FallbackConfidence, <<query>>, NoConstraints)

\* classify_intent: the intent it puts in the state.
classify_intent(query, reply) ==
    IF reply.kind \in LlmFailures \/ ~IntentClassificationAccepts(reply.parsed)
    THEN FallbackIntent(query)
    ELSE reply.parsed

\* A router that searches for whatever it does not know.
route_unknown_to_search(int) ==
    IF int.intent_type = "contextual_use_case" THEN "generate_ideas"
    ELSE IF int.intent_type = "off_topic" THEN "off_topic_end"
    ELSE "search_rag"

\* A router that searches even for an off-topic intent.
route_off_topic_to_search(int) ==
    IF int.intent_type = "contextual_use_case" THEN "generate_ideas"
    ELSE IF int.intent_type = "off_topic" THEN "search_rag"
    ELSE IF int.intent_type = "direct_product_search" THEN "search_rag"
    ELSE "off_topic_end"

\* route_after_intent, with the mapping of add_conditional_edges.
route_after_intent(int) ==
    IF int.intent_type = "contextual_use_case" THEN "generate_ideas"
    ELSE IF int.intent_type = "direct_product_search" THEN "search_rag"
    ELSE "off_topic_end"

\* Edges with generate_ideas wired straight to send_notification.
edges_skip_search(n) ==
    CASE n = "generate_ideas" -> "send_notification"
      [] n = "search_rag" -> "send_notification"
      [] n = "send_notification" -> "END"
      [] n = "off_topic_end" -> "END"

\* Edges without the one from off_topic_end to END.
edges_without_off_topic_end(n) ==
    CASE n = "generate_ideas" -> "search_rag"
      [] n = "search_rag" -> "send_notification"
      [] n = "send_notification" -> "END"
      [] n = "off_topic_end" -> "nowhere"

\* The add_edge calls of create_agent_graph.
next_node(n) ==
    CASE n = "generate_ideas" -> "search_rag"
      [] n = "search_rag" -> "send_notification"
      [] n = "send_notification" -> "END"
      [] n = "off_topic_end" -> "END"

ProductIdeas(queries, context) == [search_queries |-> queries, user_context |-> context]

\* GraphState.product_ideas = None (run_agent_workflow, line 611).
NoIdeas == ProductIdeas(<<>>, None)

IdeaQueryLists ==
    {<<>>, <<"jacket">>, <<"jacket", "boots">>, <<"jacket", "boots", "coat">>,
     <<"jacket", "boots", "coat", "umbrella">>}

\* A reply of the completion service to generate_ideas' prompt.
IdeaReplies ==
    [kind : LlmFailures, parsed : {NoIdeas}] \cup
    [kind : {"json"}, parsed : {ProductIdeas(q, "rain gear") : q \in IdeaQueryLists}]

\* A generate_ideas without its except branch: what the reply gave is kept.
generate_ideas_without_fallback(query, reply) == reply.parsed

\* generate_ideas: the product_ideas it puts in the state.
generate_ideas(query, reply) ==
    IF reply.kind \in LlmFailures
    THEN ProductIdeas(<<query>>, "General product search")
    ELSE reply.parsed

\* rest.FieldCondition: a match on a value, or a range with the bounds it
\* was given (NoPrice for a bound Range(...) did not get).
MatchCondition(key, value) ==
    [key |-> key, kind |-> "match", value |-> value, gte |-> NoPrice, lte |-> NoPrice]

RangeCondition(key, gte, lte) ==
    [key |-> key, kind |-> "range", value |-> None, gte |-> gte, lte |-> lte]

\* The truth value Python gives an Optional[str].
Truthy(v) == v # None /\ v # ""

\* A filter whose price range tests the bounds for truth, not for None.
search_rag_filter_truthy_price(c) ==
    <<MatchCondition("in_stock", "True")>>
    \o (IF Truthy(c.category) THEN <<MatchCondition("category", c.category)>> ELSE <<>>)
    \o (IF Truthy(c.brand) THEN <<MatchCondition("brand", c.brand)>> ELSE <<>>)
    \o (IF Truthy(c.color) THEN <<MatchCondition("colors", c.color)>> ELSE <<>>)
    \o (IF Truthy(c.size) THEN <<MatchCondition("sizes", c.size)>> ELSE <<>>)
    \o (IF c.price_min > 0 \/ c.price_max > 0
        THEN <<RangeCondition("price",
                              IF c.price_min > 0 THEN c.price_min ELSE NoPrice,
                              IF c.price_max > 0 THEN c.price_max ELSE NoPrice)>>
        ELSE <<>>)

\* search_rag lines 309-342: must_conditions of qdrant_filter.
search_rag_filter(c) ==
    <<MatchCondition("in_stock", "True")>>
    \o (IF Truthy(c.category) THEN <<MatchCondition("category", c.category)>> ELSE <<>>)
    \o (IF Truthy(c.brand) THEN <<MatchCondition("brand", c.brand)>> ELSE <<>>)
    \o (IF Truthy(c.color) THEN <<MatchCondition("colors", c.color)>> ELSE <<>>)
    \o (IF Truthy(c.size) THEN <<MatchCondition("sizes", c.size)>> ELSE <<>>)
    \o (IF c.price_min # NoPrice \/ c.price_max # NoPrice
        THEN <<RangeCondition("price", c.price_min, c.price_max)>>
        ELSE <<>>)

\* _build_filter of agent/ask_agent.py: must, with range_conditions holding
\* the bounds that are not None.
build_filter(c) ==
    LET gte == IF c.price_min # NoPrice THEN <<c.price_min>> ELSE <<>>
        lte == IF c.price_max # NoPrice THEN <<c.price_max>> ELSE <<>>
    IN  <<MatchCondition("in_stock", "True")>>
        \o (IF Truthy(c.category) THEN <<MatchCondition("category", c.category)>> ELSE <<>>)
        \o (IF Truthy(c.brand) THEN <<MatchCondition("brand", c.brand)>> ELSE <<>>)
        \o (IF Truthy(c.color) THEN <<MatchCondition("colors", c.color)>> ELSE <<>>)
        \o (IF Truthy(c.size) THEN <<MatchCondition("sizes", c.size)>> ELSE <<>>)
        \o (IF gte \o lte # <<>>
            THEN <<RangeCondition("price",
                                  IF gte # <<>> THEN gte[1] ELSE NoPrice,
                                  IF lte # <<>> THEN lte[1] ELSE NoPrice)>>
            ELSE <<>>)

MaxQueries == 3     \* search_queries[:3]
SearchLimit == 4    \* limit=4
MaxProducts == 8    \* if len(all_products) >= 8: break

\* A hit of the vector store: its product_id, and whether a ProductCard can
\* be built from its payload (float(price) and the card's validation).
Hit(product_id, card_ok) == [product_id |-> product_id, card_ok |-> card_ok]

\* The hits for products first .. first + n - 1, in that order.
Window(first, n) == [i \in 1..n |-> Hit(first + i - 1, TRUE)]

\* What the embedding and the search of one query may give: the embedding
\* raises (nothing is searched), the search raises, or the store returns at
\* most SearchLimit hits.
Response(embedded, ok, hits) == [embedded |-> embedded, ok |-> ok, hits |-> hits]

Responses ==
    { Response(FALSE, FALSE, <<>>),
      Response(TRUE, FALSE, <<>>),
      Response(TRUE, TRUE, <<>>),
      Response(TRUE, TRUE, Window(1, SearchLimit)),
      Response(TRUE, TRUE, Window(3, SearchLimit)),
      Response(TRUE, TRUE, Window(5, SearchLimit)),
      Response(TRUE, TRUE, Window(9, 1)),
      Response(TRUE, TRUE, <<Hit(1, TRUE), Hit(1, TRUE)>>),
      Response(TRUE, TRUE, <<Hit(2, FALSE), Hit(6, TRUE)>>) }

\* Not called: the loop has no such entry.
NotCalled == Response(FALSE, FALSE, <<>>)

\* The response to the i-th query of the loop.
response_at(responses, i) == IF i \in DOMAIN responses THEN responses[i] ELSE NotCalled

\* One call of _qdrant_client.search.
SearchCall(query, limit, query_filter) ==
    [query |-> query, limit |-> limit, query_filter |-> query_filter]

\* A merge where the later hit of a product wins: the card moves to the end.
RECURSIVE merge_hits_last_wins(_, _, _)
merge_hits_last_wins(hits, all_products, seen_ids) ==
    IF hits = <<>> THEN [all |-> all_products, seen |-> seen_ids]
    ELSE LET hit == Head(hits)
             seen == seen_ids \cup {hit.product_id}
             others == SelectSeq(all_products, LAMBDA p : p # hit.product_id)
             added == Append(others, hit.product_id)
         IN  IF ~hit.card_ok
             THEN [all |-> all_products, seen |-> seen]
             ELSE IF Len(added) >= MaxProducts
             THEN [all |-> added, seen |-> seen]
             ELSE merge_hits_last_wins(Tail(hits), added, seen)

\* search_rag lines 359-397, the loop over the hits of one query. A card
\* that cannot be built raises after its id went into seen_ids, and the
\* except of line 398 ends the entry.
RECURSIVE merge_hits(_, _, _)
merge_hits(hits, all_products, seen_ids) ==
    IF hits = <<>> THEN [all |-> all_products, seen |-> seen_ids]
    ELSE LET hit == Head(hits)
             seen == seen_ids \cup {hit.product_id}
             added == Append(all_products, hit.product_id)
         IN  IF hit.product_id \in seen_ids
             THEN merge_hits(Tail(hits), all_products, seen_ids)
             ELSE IF ~hit.card_ok
             THEN [all |-> all_products, seen |-> seen]
             ELSE IF Len(added) >= MaxProducts
             THEN [all |-> added, seen |-> seen]
             ELSE merge_hits(Tail(hits), added, seen)

\* A slice that keeps the whole list.
WholeList(seq, n) == seq

\* seq[:n]
FirstN(seq, n) == SubSeq(seq, 1, IF Len(seq) < n THEN Len(seq) ELSE n)

\* A loop whose try is around the whole of it: the first entry that raises
\* ends the loop.
RECURSIVE search_from_until_failure(_, _, _, _, _)
search_from_until_failure(i, queries, responses, qdrant_filter, acc) ==
    IF i > Len(queries) THEN acc
    ELSE LET response == response_at(responses, i)
             calls == IF response.embedded
                      THEN Append(acc.calls, SearchCall(queries[i], SearchLimit, qdrant_filter))
                      ELSE acc.calls
             merged == merge_hits(response.hits, acc.all, acc.seen)
         IN  IF ~(response.embedded /\ response.ok)
             THEN [all |-> acc.all, seen |-> acc.seen, calls |-> calls]
             ELSE search_from_until_failure(i + 1, queries, responses, qdrant_filter,
                      [all |-> merged.all, seen |-> merged.seen, calls |-> calls])

\* search_rag lines 348-400, the loop over the queries from the i-th on:
\* the cards merged, and the searches handed to the store with
\* qdrant_filter (built once, line 342).
RECURSIVE search_from(_, _, _, _, _)
search_from(i, queries, responses, qdrant_filter, acc) ==
    IF i > Len(queries) THEN acc
    ELSE LET response == response_at(responses, i)
             calls == IF response.embedded
                      THEN Append(acc.calls, SearchCall(queries[i], SearchLimit, qdrant_filter))
                      ELSE acc.calls
             merged == IF response.embedded /\ response.ok
                       THEN merge_hits(response.hits, acc.all, acc.seen)
                       ELSE [all |-> acc.all, seen |-> acc.seen]
         IN  search_from(i + 1, queries, responses, qdrant_filter,
                         [all |-> merged.all, seen |-> merged.seen, calls |-> calls])

\* A plan that keeps a single keyword of a direct search.
search_queries_single_keyword(query, int, ideas) ==
    IF int.intent_type = "contextual_use_case" /\ ideas.user_context # None
    THEN ideas.search_queries
    ELSE IF int.intent_type = "direct_product_search"
    THEN (IF int.extracted_keywords # <<>> THEN <<int.extracted_keywords[1]>> ELSE <<query>>)
    ELSE <<>>

\* search_rag lines 293-307: the queries of the turn; none for an intent
\* that is neither contextual nor a direct search.
search_queries_of(query, int, ideas) ==
    IF int.intent_type = "contextual_use_case" /\ ideas.user_context # None
    THEN ideas.search_queries
    ELSE IF int.intent_type = "direct_product_search"
    THEN (IF int.extracted_keywords # <<>> THEN int.extracted_keywords ELSE <<query>>)
    ELSE <<>>

Searches(int) ==
    int.intent_type \in {"contextual_use_case", "direct_product_search"}

\* search_rag: final_products and response_message; searched and calls are
\* the queries the loop went through and the searches it made, seen_ids the
\* set of line 346 as the loop left it.
search_rag(query, int, ideas, responses) ==
    LET search_queries == search_queries_of(query, int, ideas)
        qdrant_filter == search_rag_filter(int.inferred_constraints)
        found == search_from(1, FirstN(search_queries, MaxQueries), responses, qdrant_filter,
                             [all |-> <<>>, seen |-> {}, calls |-> <<>>])
    IN  IF ~(Searches(int) /\ (int.intent_type = "contextual_use_case" => ideas.user_context # None))
        THEN [final_products |-> <<>>, response_message |-> "redirect",
              searched |-> <<>>, calls |-> <<>>, seen_ids |-> {}]
        ELSE [final_products |-> found.all,
              response_message |->
                  IF found.all = <<>> THEN "not found"
                  ELSE IF int.intent_type = "contextual_use_case" THEN "based on context"
                  ELSE "found",
              searched |-> FirstN(search_queries, MaxQueries),
              calls |-> found.calls,
              seen_ids |-> found.seen]

NotifyThreshold == 60

\* A gate that wants more than the threshold.
should_notify_above(products, int) ==
    /\ Len(products) > 0
    /\ int.intent_type # None
    /\ int.confidence > NotifyThreshold
    /\ int.intent_type # "off_topic"

\* send_notification, lines 439-444.
should_notify(products, int) ==
    /\ Len(products) > 0
    /\ int.intent_type # None
    /\ int.confidence >= NotifyThreshold
    /\ int.intent_type # "off_topic"

GraphIdle ==
    /\ node = "idle"
    /\ intent_validated = FALSE
    /\ raw_query = None
    /\ intent = NoIntent
    /\ product_ideas = NoIdeas
    /\ final_products = <<>>
    /\ response_message = ""
    /\ notification_sent = FALSE
    /\ trace = <<>>
    /\ searches = <<>>
    /\ emails = 0
    /\ llm_classify = "pending"
    /\ search_calls = <<>>
    /\ llm_ideas = "pending"

(***************************************************************************)
(* The nodes of the graph, one action each: the node's function, then the  *)
(* edge that leaves it.                                                    *)
(***************************************************************************)
ClassifyIntent(reply) ==
    /\ node = "classify_intent"
    /\ intent' = classify_intent(raw_query, reply)
    /\ llm_classify' = IF reply.kind \in LlmFailures THEN reply.kind
                       ELSE IF ~IntentClassificationAccepts(reply.parsed) THEN "rejected"
                       ELSE "json"
    /\ node' = route_after_intent(intent')
    /\ trace' = Append(trace, "classify_intent")
    /\ UNCHANGED <<intent_validated, raw_query, product_ideas, final_products,
                   response_message, notification_sent, searches, emails, search_calls, llm_ideas>>
    /\ UNCHANGED <<processed_messages, now, lastMark, driverVars, kapsoVars, otherVars>>

GenerateIdeas(reply) ==
    /\ node = "generate_ideas"
    /\ product_ideas' = generate_ideas(raw_query, reply)
    /\ llm_ideas' = IF reply.kind \in LlmFailures THEN "failed" ELSE "json"
    /\ node' = next_node("generate_ideas")
    /\ trace' = Append(trace, "generate_ideas")
    /\ UNCHANGED <<intent_validated, raw_query, intent, final_products,
                   response_message, notification_sent, searches, emails, llm_classify, search_calls>>
    /\ UNCHANGED <<processed_messages, now, lastMark, driverVars, kapsoVars, otherVars>>

SearchRag(responses) ==
    LET out == search_rag(raw_query, intent, product_ideas, responses)
    IN  /\ node = "search_rag"
        /\ \A i \in 1..MaxQueries : i > Len(out.searched) => responses[i] = NotCalled
        /\ final_products' = out.final_products
        /\ response_message' = out.response_message
        /\ searches' = searches \o out.searched
        /\ search_calls' = search_calls \o out.calls
        /\ node' = next_node("search_rag")
        /\ trace' = Append(trace, "search_rag")
        /\ UNCHANGED <<intent_validated, raw_query, intent, product_ideas,
                       notification_sent, emails, llm_classify, llm_ideas>>
        /\ UNCHANGED <<processed_messages, now, lastMark, driverVars, kapsoVars, otherVars>>

SendNotification ==
    /\ node = "send_notification"
    /\ notification_sent' = should_notify(final_products, intent)
    /\ emails' = IF should_notify(final_products, intent) THEN emails + 1 ELSE emails
    /\ node' = next_node("send_notification")
    /\ trace' = Append(trace, "send_notification")
    /\ UNCHANGED <<intent_validated, raw_query, intent, product_ideas, final_products,
                   response_message, searches, llm_classify, search_calls, llm_ideas>>
    /\ UNCHANGED <<processed_messages, now, lastMark, driverVars, kapsoVars, otherVars>>

OffTopicHandler ==
    /\ node = "off_topic_end"
    /\ final_products' = <<>>
    /\ response_message' = "redirect"
    /\ notification_sent' = FALSE
    /\ node' = next_node("off_topic_end")
    /\ trace' = Append(trace, "off_topic_end")
    /\ UNCHANGED <<intent_validated, raw_query, intent, product_ideas, searches,
                   emails, llm_classify, search_calls, llm_ideas>>
    /\ UNCHANGED <<processed_messages, now, lastMark, driverVars, kapsoVars, otherVars>>

DedupIdle ==
    /\ processed_messages = EmptyCache
    /\ now = 0
    /\ lastOp = NoOp
    /\ prevOp = NoOp
    /\ lastMark = [k \in MessageIds |-> -1]

(***************************************************************************)
(* SpecGraph: one turn of run_agent_workflow.                              *)
(***************************************************************************)
InitGraph ==
    /\ DedupIdle
    /\ KapsoIdle
    /\ node = "classify_intent"
    /\ intent_validated \in BOOLEAN
    /\ raw_query \in RawQueries
    /\ intent = NoIntent
    /\ product_ideas = NoIdeas
    /\ final_products = <<>>
    /\ response_message = ""
    /\ notification_sent = FALSE
    /\ trace = <<>>
    /\ searches = <<>>
    /\ emails = 0
    /\ llm_classify = "pending"
    /\ search_calls = <<>>
    /\ llm_ideas = "pending"
    /\ OtherIdle

NextGraph ==
    \/ \E reply \in ClassifyReplies : ClassifyIntent(reply)
    \/ \E reply \in IdeaReplies : GenerateIdeas(reply)
    \/ \E responses \in [1..MaxQueries -> Responses] : SearchRag(responses)
    \/ SendNotification
    \/ OffTopicHandler

SpecGraph == InitGraph /\ [][NextGraph]_vars

\* invoke() runs every node it reaches to its end.
SpecGraphFair == SpecGraph /\ WF_vars(NextGraph)

(***************************************************************************)
(* SpecNotify: send_notification called on a state of any shape.           *)
(***************************************************************************)
NotifyIntents ==
    {NoIntent} \cup {IntentClassification(t, c, k, NoConstraints) :
                        t \in IntentTypes, c \in Confidences, k \in KeywordLists}

NotifyProducts == {<<>>, <<1>>, <<1, 2, 3, 4, 5, 6, 7>>}

InitNotify ==
    /\ DedupIdle
    /\ KapsoIdle
    /\ node = "send_notification"
    /\ intent_validated = FALSE
    /\ raw_query \in RawQueries
    /\ intent \in NotifyIntents
    /\ product_ideas \in {NoIdeas, ProductIdeas(<<"jacket">>, "rain gear")}
    /\ final_products \in NotifyProducts
    /\ response_message = "found"
    /\ notification_sent = FALSE
    /\ trace = <<>>
    /\ searches = <<>>
    /\ emails = 0
    /\ llm_classify = "pending"
    /\ search_calls = <<>>
    /\ llm_ideas = "pending"
    /\ OtherIdle

NextNotify == SendNotification

SpecNotify == InitNotify /\ [][NextNotify]_vars

(***************************************************************************)
(* SpecNormalize: normalize_kapso_webhook (kapso/utils.py) on raw events   *)
(* of any shape. A value that should be a mapping has a shape: "missing"   *)
(* (the key is absent), "null" (None), "scalar" (a number) or "mapping";   *)
(* a key a mapping does not carry is Missing.                              *)
(***************************************************************************)
Missing == "Missing"

Shapes == {"missing", "null", "scalar", "mapping"}

RawText(shape, body) == [shape |-> shape, body |-> body]

RawTexts == {RawText("missing", Missing), RawText("scalar", Missing), RawText("mapping", "hola")}

RawMessage(shape, message_type, type, content, text) ==
    [shape |-> shape, message_type |-> message_type, type |-> type,
     content |-> content, text |-> text]

\* The mapping {} that stands for a message that is not a mapping (line 61).
EmptyMessage == RawMessage("mapping", Missing, Missing, Missing, RawText("missing", Missing))

RawMessages ==
    {RawMessage(sh, Missing, Missing, Missing, RawText("missing", Missing)) :
        sh \in {"missing", "null", "scalar"}}
    \cup {RawMessage("mapping", mt, t, c, x) :
            mt \in {Missing, None, "text"}, t \in {Missing, "text", "image"},
            c \in {Missing, "hola"}, x \in RawTexts}

RawConversation(shape, id, phone_number_id, whatsapp_config_id) ==
    [shape |-> shape, id |-> id, phone_number_id |-> phone_number_id,
     whatsapp_config_id |-> whatsapp_config_id]

RawConversations ==
    {RawConversation(sh, Missing, Missing, Missing) : sh \in {"missing", "null", "scalar"}}
    \cup {RawConversation("mapping", i, pn, wc) :
            i \in {Missing, "c1"}, pn \in {Missing, "pn2"}, wc \in {Missing, "wc1"}}

RawConfig(shape, display_phone_number_normalized, id) ==
    [shape |-> shape, display_phone_number_normalized |-> display_phone_number_normalized,
     id |-> id]

RawConfigs ==
    {RawConfig(sh, Missing, Missing) : sh \in {"missing", "null", "scalar"}}
    \cup {RawConfig("mapping", dn, i) : dn \in {Missing, "+56"}, i \in {Missing, "wc2"}}

RawBatch(shape, conversation_id) == [shape |-> shape, conversation_id |-> conversation_id]

RawBatches ==
    {RawBatch(sh, Missing) : sh \in {"missing", "null", "scalar"}}
    \cup {RawBatch("mapping", ci) : ci \in {Missing, "c9"}}

RawItem(shape, message, conversation, whatsapp_config, batch_info, phone_number_id) ==
    [shape |-> shape, message |-> message, conversation |-> conversation,
     whatsapp_config |-> whatsapp_config, batch_info |-> batch_info,
     phone_number_id |-> phone_number_id]

\* An item of data that is not a mapping.
BadItem(shape) ==
    RawItem(shape, RawMessage("missing", Missing, Missing, Missing, RawText("missing", Missing)),
            RawConversation("missing", Missing, Missing, Missing),
            RawConfig("missing", Missing, Missing), RawBatch("missing", Missing), Missing)

\* An item as Kapso sends it.
GoodItem ==
    RawItem("mapping", RawMessage("mapping", "text", Missing, "hola", RawText("missing", Missing)),
            RawConversation("mapping", "c1", "pn2", "wc1"),
            RawConfig("mapping", "+56", "wc2"), RawBatch("missing", Missing), Missing)

RawItems ==
    {BadItem("null"), BadItem("scalar")}
    \cup {RawItem("mapping", m, c, w, b, pn) :
            m \in RawMessages, c \in RawConversations, w \in RawConfigs,
            b \in RawBatches, pn \in {Missing, "pn1"}}

\* webhook_data: its own shape, the shape of data, and the items of data.
RawEvent(shape, data_shape, data) == [shape |-> shape, data_shape |-> data_shape, data |-> data]

\* Items with one field that is null or not a mapping.
SpoiltItems ==
    {BadItem("null"), BadItem("scalar"),
     [GoodItem EXCEPT !.conversation = RawConversation("null", Missing, Missing, Missing)],
     [GoodItem EXCEPT !.conversation = RawConversation("scalar", Missing, Missing, Missing)],
     [GoodItem EXCEPT !.whatsapp_config = RawConfig("null", Missing, Missing)],
     [GoodItem EXCEPT !.whatsapp_config = RawConfig("scalar", Missing, Missing)],
     [GoodItem EXCEPT !.batch_info = RawBatch("null", Missing)],
     [GoodItem EXCEPT !.batch_info = RawBatch("scalar", Missing),
                      !.conversation = RawConversation("mapping", Missing, "pn2", "wc1")]}

RawEvents ==
    {RawEvent("null", "missing", <<>>), RawEvent("scalar", "missing", <<>>),
     RawEvent("mapping", "missing", <<>>), RawEvent("mapping", "null", <<>>),
     RawEvent("mapping", "scalar", <<>>), RawEvent("mapping", "list", <<>>)}
    \cup {RawEvent("mapping", "list", <<item>>) : item \in RawItems}
    \cup {RawEvent("mapping", "list", <<item, GoodItem>>) : item \in SpoiltItems}
    \cup {RawEvent("mapping", "list", <<GoodItem, item>>) : item \in SpoiltItems}

\* dict-like: the value .get and "in" work on. A key that is absent reads
\* as the default {} of item.get.
IsMapping(v) == v.shape \in {"missing", "mapping"}

NormalizedItem(message_type, content, conversation_id, whatsapp_config_id, display_phone_number_normalized, phone_number_id) ==
    [message |-> [message_type |-> message_type, content |-> content],
     conversation |-> [id |-> conversation_id, whatsapp_config_id |-> whatsapp_config_id],
     whatsapp_config |-> [display_phone_number_normalized |-> display_phone_number_normalized],
     phone_number_id |-> phone_number_id]

\* A normalizer for which the raw type field wins over message_type.
message_type_prefers_type(message_data) ==
    IF message_data.type # Missing THEN message_data.type ELSE message_data.message_type

\* Lines 72-73: message_type, taken from type when the key is absent.
normalize_message_type(message_data) ==
    IF message_data.message_type = Missing /\ message_data.type # Missing
    THEN message_data.type
    ELSE message_data.message_type

\* Lines 77-84: content; Missing when the key stays absent.
normalize_content(message_data, message_type) ==
    LET msg_type == IF message_type = Missing THEN "" ELSE message_type
    IN  IF message_data.content # Missing THEN message_data.content
        ELSE IF msg_type # "text" THEN Missing
        ELSE IF message_data.text.shape = "missing" THEN ""
        ELSE IF message_data.text.shape = "mapping"
        THEN (IF message_data.text.body = Missing THEN "" ELSE message_data.text.body)
        ELSE Missing

\* Line 93: phone_number_id of the item root, or of conversation.
normalize_phone_number_id(item, conversation_data) ==
    IF item.phone_number_id # Missing THEN item.phone_number_id
    ELSE IF conversation_data.phone_number_id # Missing
    THEN conversation_data.phone_number_id
    ELSE None

\* A normalizer for which batch_info overwrites the conversation id.
conversation_id_prefers_batch(conversation_data, batch_info) ==
    IF batch_info.shape = "mapping" /\ batch_info.conversation_id # Missing
    THEN batch_info.conversation_id
    ELSE conversation_data.id

\* Lines 96-97: conversation["id"], taken from batch_info when absent.
normalize_conversation_id(conversation_data, batch_info) ==
    IF conversation_data.id = Missing /\ batch_info.shape = "mapping"
       /\ batch_info.conversation_id # Missing
    THEN batch_info.conversation_id
    ELSE conversation_data.id

\* Lines 104-105: whatsapp_config["display_phone_number_normalized"], taken
\* from phone_number_id when absent.
normalize_display_phone_number(whatsapp_config_data, phone_number_id) ==
    IF whatsapp_config_data.display_phone_number_normalized = Missing
       /\ phone_number_id # None
    THEN phone_number_id
    ELSE whatsapp_config_data.display_phone_number_normalized

\* A normalizer for which phone_number_id overwrites whatsapp_config_id.
whatsapp_config_id_prefers_phone(conversation_data, phone_number_id, whatsapp_config_data) ==
    IF phone_number_id # None THEN phone_number_id
    ELSE IF conversation_data.whatsapp_config_id # Missing
    THEN conversation_data.whatsapp_config_id
    ELSE whatsapp_config_data.id

\* Lines 107-111: conversation["whatsapp_config_id"], taken from
\* phone_number_id, then from whatsapp_config["id"], when absent.
normalize_whatsapp_config_id(conversation_data, phone_number_id, whatsapp_config_data) ==
    IF conversation_data.whatsapp_config_id # Missing
    THEN conversation_data.whatsapp_config_id
    ELSE IF phone_number_id # None THEN phone_number_id
    ELSE whatsapp_config_data.id

\* normalize_kapso_webhook lines 59-126, the body of the loop: the
\* normalized item, or raised when a line of the body raises (there is no
\* try in the loop).
normalize_item(item) ==
    LET message_data == IF item.message.shape = "mapping" THEN item.message ELSE EmptyMessage
        conversation_data == item.conversation
        whatsapp_config_data == item.whatsapp_config
        batch_info == item.batch_info
        message_type == normalize_message_type(message_data)
        content == normalize_content(message_data, message_type)
        phone_number_id == normalize_phone_number_id(item, conversation_data)
        conversation_id == normalize_conversation_id(conversation_data, batch_info)
        display_phone_number_normalized ==
            normalize_display_phone_number(whatsapp_config_data, phone_number_id)
        whatsapp_config_id ==
            normalize_whatsapp_config_id(conversation_data, phone_number_id,
                                         whatsapp_config_data)
        raises ==
            \/ item.shape # "mapping"                       \* item.get, line 59
            \/ ~IsMapping(conversation_data)                \* lines 93 and 96
            \/ /\ conversation_data.id = Missing            \* "conversation_id" in ..., line 96
               /\ batch_info.shape \in {"null", "scalar"}
            \/ whatsapp_config_data.shape = "scalar"        \* line 104
    IN  IF raises
        THEN [raised |-> TRUE,
              item |-> NormalizedItem(Missing, Missing, Missing, Missing, Missing, None)]
        ELSE [raised |-> FALSE,
              item |-> NormalizedItem(message_type, content, conversation_id,
                                      whatsapp_config_id, display_phone_number_normalized,
                                      phone_number_id)]

\* The loop of line 58 over data_list.
RECURSIVE normalize_items(_)
normalize_items(data_list) ==
    IF data_list = <<>> THEN [raised |-> FALSE, list |-> <<>>]
    ELSE LET first == normalize_item(Head(data_list))
             rest == normalize_items(Tail(data_list))
         IN  IF first.raised \/ rest.raised
             THEN [raised |-> TRUE, list |-> <<>>]
             ELSE [raised |-> FALSE, list |-> <<first.item>> \o rest.list]

\* normalize_kapso_webhook on a raw event: lines 47-54, then the loop.
\* webhook_data that is truthy and no mapping has no .get; data that is
\* truthy and no list cannot be iterated.
normalize_raw_webhook(webhook_data) ==
    IF webhook_data.shape = "null" THEN [raised |-> FALSE, list |-> <<>>]
    ELSE IF webhook_data.shape = "scalar" THEN [raised |-> TRUE, list |-> <<>>]
    ELSE IF webhook_data.data_shape \in {"missing", "null"}
    THEN [raised |-> FALSE, list |-> <<>>]
    ELSE IF webhook_data.data_shape = "scalar" THEN [raised |-> TRUE, list |-> <<>>]
    ELSE normalize_items(webhook_data.data)

\* The sentinel of handle_response, use_kapso.py line 85.
UnknownConfig == "UNKNOWN_CONFIG"

\* What "not value" takes for nothing in handle_response: a key that is
\* absent (get gives None), None and "".
Falsy(value) == value \in {Missing, None, ""}

\* handle_response, use_kapso.py lines 78-85: the whatsapp_config_id of the
\* turn, read from the normalized item.
handle_response_config_id(first_data) ==
    IF ~Falsy(first_data.conversation.whatsapp_config_id)
    THEN first_data.conversation.whatsapp_config_id
    ELSE IF ~Falsy(first_data.phone_number_id) THEN first_data.phone_number_id
    ELSE UnknownConfig

\* The item of the payload after the body of the loop ran on it, to its end
\* or to the line that raised. conversation_data and whatsapp_config_data
\* are the mappings of the payload itself when the item carries them (line
\* 63; line 100 puts a new {} in place of an empty whatsapp_config), so the
\* assignments of lines 97, 105, 109 and 111 write into the payload. The
\* message is a copy (line 68).
written_item(item) ==
    LET conversation_data == item.conversation
        whatsapp_config_data == item.whatsapp_config
        batch_info == item.batch_info
        phone_number_id == normalize_phone_number_id(item, conversation_data)
        passes_96 ==
            /\ item.shape = "mapping"
            /\ IsMapping(conversation_data)
            /\ ~(conversation_data.id = Missing /\ batch_info.shape \in {"null", "scalar"})
        passes_104 == passes_96 /\ whatsapp_config_data.shape # "scalar"
        config_kept ==
            /\ whatsapp_config_data.shape = "mapping"
            /\ \/ whatsapp_config_data.display_phone_number_normalized # Missing
               \/ whatsapp_config_data.id # Missing
    IN  [item EXCEPT
           !.conversation =
               IF conversation_data.shape = "mapping" /\ passes_96
               THEN [conversation_data EXCEPT
                        !.id = normalize_conversation_id(conversation_data, batch_info),
                        !.whatsapp_config_id =
                            IF passes_104
                            THEN normalize_whatsapp_config_id(conversation_data, phone_number_id,
                                                              whatsapp_config_data)
                            ELSE @]
               ELSE conversation_data,
           !.whatsapp_config =
               IF config_kept /\ passes_104
               THEN [whatsapp_config_data EXCEPT
                        !.display_phone_number_normalized =
                            normalize_display_phone_number(whatsapp_config_data,
                                                           phone_number_id)]
               ELSE whatsapp_config_data]

\* The items of the payload after the loop of line 58: the loop ends at the
\* first item that raises.
RECURSIVE written_items(_)
written_items(data_list) ==
    IF data_list = <<>> THEN <<>>
    ELSE IF normalize_item(Head(data_list)).raised
    THEN <<written_item(Head(data_list))>> \o Tail(data_list)
    ELSE <<written_item(Head(data_list))>> \o written_items(Tail(data_list))

\* The payload after normalize_kapso_webhook returned or raised.
written_webhook(webhook_data) ==
    IF webhook_data.shape = "mapping" /\ webhook_data.data_shape = "list"
    THEN [webhook_data EXCEPT !.data = written_items(webhook_data.data)]
    ELSE webhook_data

\* Before the call: webhook_data is the payload as it was handed in.
NotNormalized(webhook_data) ==
    [done |-> FALSE, raised |-> FALSE, list |-> <<>>, webhook_data |-> webhook_data]

\* The call: what it returned, and the payload object after it; raw_event
\* keeps the payload as it was handed in.
Normalize ==
    /\ ~normalized.done
    /\ normalized' = [done |-> TRUE,
                      raised |-> normalize_raw_webhook(raw_event).raised,
                      list |-> normalize_raw_webhook(raw_event).list,
                      webhook_data |-> written_webhook(raw_event)]
    /\ UNCHANGED <<raw_event, askVars, lockVars, filterVars, ragVars>>
    /\ UNCHANGED <<processed_messages, now, lastMark, driverVars, kapsoVars, graphVars>>

InitNormalize ==
    /\ DedupIdle
    /\ KapsoIdle
    /\ GraphIdle
    /\ AskIdle /\ LockIdle /\ FilterIdle /\ RagIdle
    /\ raw_event \in RawEvents
    /\ normalized = NotNormalized(raw_event)

NextNormalize == Normalize

SpecNormalize == InitNormalize /\ [][NextNormalize]_vars

(***************************************************************************)
(* SpecAsk: one call of ask_agent_logic (agent/ask_agent.py).              *)
(***************************************************************************)
\* What the completion call and the reading of its text give: the call
\* raises; the text is not JSON (the inner except of line 97 replaces it);
\* a JSON object; a JSON object whose filters Constraints refuses.
AskLlmOutcomes == {"call_fails", "not_json", "json", "bad_filters"}

\* What an embedding and search of ask_agent_logic give: the embedding
\* raises, the search raises, no hit, hits, or a hit whose price float()
\* refuses.
AskSearchOutcomes == {"embed_fails", "search_fails", "no_hits", "hits", "bad_hit"}

AskCall(query, llm, search, fallback_search) ==
    [pc |-> "called", query |-> query, llm |-> llm, search |-> search,
     fallback_search |-> fallback_search,
     outcome |-> "pending", response |-> None, items |-> 0, searched |-> <<>>]

\* The number of cards built from a search that did not raise.
ask_items(search) == IF search = "hits" THEN 2 ELSE 0

AskRaises(search) == search \in {"embed_fails", "search_fails", "bad_hit"}

\* ask_agent_logic lines 80-164: the try. It leaves for the except of line
\* 166 when the completion call, Constraints, the embedding, the search or a
\* card raises.
ask_try_raises(call) ==
    call.llm \in {"call_fails", "bad_filters"} \/ AskRaises(call.search)

\* ask_agent_logic: the call's end. The except of line 166 embeds and
\* searches again, outside any try.
ask_agent_logic(call) ==
    LET search_query == IF call.llm = "json" THEN "parsed search_query" ELSE call.query
        conversational_text ==
            IF call.llm = "json" THEN "conversational_response" ELSE "Let me find"
    IN  IF ~ask_try_raises(call)
        THEN [call EXCEPT !.pc = "done", !.outcome = "returned",
                          !.response = IF ask_items(call.search) = 0
                                       THEN conversational_text \o " + no match"
                                       ELSE conversational_text,
                          !.items = ask_items(call.search),
                          !.searched = <<search_query>>]
        ELSE LET first == IF call.llm \in {"call_fails", "bad_filters"}
                          \/ call.search = "embed_fails"
                          THEN <<>> ELSE <<search_query>>
                 second == IF call.fallback_search = "embed_fails"
                           THEN <<>> ELSE <<call.query>>
             IN  IF AskRaises(call.fallback_search)
                 THEN [call EXCEPT !.pc = "done", !.outcome = "raised",
                                   !.searched = first \o second]
                 ELSE [call EXCEPT !.pc = "done", !.outcome = "returned",
                                   !.response = "Here are some products I found for you!",
                                   !.items = ask_items(call.fallback_search),
                                   !.searched = first \o second]

AskAgentLogic ==
    /\ ask.pc = "called"
    /\ ask' = ask_agent_logic(ask)
    /\ UNCHANGED <<normVars, lockVars, filterVars, ragVars>>
    /\ UNCHANGED <<processed_messages, now, lastMark, driverVars, kapsoVars, graphVars>>

InitAsk ==
    /\ DedupIdle
    /\ KapsoIdle
    /\ GraphIdle
    /\ NormIdle /\ LockIdle /\ FilterIdle /\ RagIdle
    /\ ask \in {AskCall(q, l, s, f) : q \in RawQueries, l \in AskLlmOutcomes,
                                       s \in AskSearchOutcomes, f \in AskSearchOutcomes}

NextAsk == AskAgentLogic

SpecAsk == InitAsk /\ [][NextAsk]_vars

(***************************************************************************)
(* SpecLock: threads calling MessageDeduplicator, each statement of a      *)
(* method a step of its own, so that whatever threading.Lock does not      *)
(* exclude can happen.                                                     *)
(***************************************************************************)
Threads == {1, 2}

LockIdLists == {<<>>, <<"m1">>, <<"m2">>, <<"m1", "m2">>}

\* A thread between two calls.
IdleThread == [pc |-> "idle", op |-> "none", ids |-> <<>>, time |-> 0, todo |-> <<>>]

\* The expired ids in the order the loop of line 122 meets them.
RECURSIVE SeqOf(_)
SeqOf(set) ==
    IF set = {} THEN <<>>
    ELSE LET k == CHOOSE x \in set : TRUE IN <<k>> \o SeqOf(set \ {k})

\* An acquire that does not wait.
AcquiresAtOnce(holder) == TRUE

\* "with self.lock:" gets past the acquire only when no thread holds the lock.
CanAcquire(holder) == holder = 0

\* The thread is inside a "with self.lock:" block.
InsideLock(t) == threads[t].pc \in {"scan", "delete", "read", "mark", "release"}

\* The call of a method. A check or a mark of the empty list returns at
\* once (lines 81-82, 104-105) and touches neither the lock nor the map.
LockCall(t, op, ids) ==
    /\ threads[t].pc = "idle"
    /\ op \in {"check", "mark"} => ids # <<>>
    /\ op = "stats" => ids = <<>>
    /\ threads' = [threads EXCEPT ![t] = [IdleThread EXCEPT !.pc = "acquire", !.op = op, !.ids = ids]]
    /\ UNCHANGED <<lock, processed_messages, now>>

\* Lines 84, 107, 137: the lock is taken; current_time is read (lines 108,
\* 119).
LockAcquire(t) ==
    /\ threads[t].pc = "acquire"
    /\ CanAcquire(lock)
    /\ lock' = t
    /\ threads' = [threads EXCEPT ![t].time = now,
                                  ![t].todo = IF threads[t].op = "mark" THEN threads[t].ids ELSE <<>>,
                                  ![t].pc = IF threads[t].op = "mark" THEN "mark" ELSE "scan"]
    /\ UNCHANGED <<processed_messages, now>>

\* _cleanup_expired_entries lines 122-124: expired_ids.
LockScan(t) ==
    /\ threads[t].pc = "scan"
    /\ threads' = [threads EXCEPT
           ![t].todo = SeqOf({k \in DOMAIN processed_messages :
                                threads[t].time - processed_messages[k] > ttl_seconds}),
           ![t].pc = "delete"]
    /\ UNCHANGED <<lock, processed_messages, now>>

\* _cleanup_expired_entries lines 126-127: one del of the loop, or its end.
LockDelete(t) ==
    /\ threads[t].pc = "delete"
    /\ IF threads[t].todo = <<>>
       THEN /\ threads' = [threads EXCEPT ![t].pc = "read"]
            /\ UNCHANGED processed_messages
       ELSE /\ processed_messages' =
                   [k \in DOMAIN processed_messages \ {Head(threads[t].todo)} |->
                       processed_messages[k]]
            /\ threads' = [threads EXCEPT ![t].todo = Tail(@)]
    /\ UNCHANGED <<lock, now>>

\* Lines 90-95 and 139-146: the map is read for the answer.
LockRead(t) ==
    /\ threads[t].pc = "read"
    /\ threads' = [threads EXCEPT ![t].pc = "release"]
    /\ UNCHANGED <<lock, processed_messages, now>>

\* mark_messages_as_processed lines 110-111: one assignment of the loop, or
\* its end.
LockMarkOne(t) ==
    /\ threads[t].pc = "mark"
    /\ IF threads[t].todo = <<>>
       THEN /\ threads' = [threads EXCEPT ![t].pc = "release"]
            /\ UNCHANGED processed_messages
       ELSE /\ processed_messages' =
                   [k \in DOMAIN processed_messages \cup {Head(threads[t].todo)} |->
                       IF k = Head(threads[t].todo) THEN threads[t].time
                       ELSE processed_messages[k]]
            /\ threads' = [threads EXCEPT ![t].todo = Tail(@)]
    /\ UNCHANGED <<lock, now>>

\* The end of the with block: the lock is released and the method returns.
LockRelease(t) ==
    /\ threads[t].pc = "release"
    /\ lock' = 0
    /\ threads' = [threads EXCEPT ![t] = IdleThread]
    /\ UNCHANGED <<processed_messages, now>>

LockStep(t) ==
    /\ \/ \E op \in {"check", "mark", "stats"}, ids \in LockIdLists : LockCall(t, op, ids)
       \/ LockAcquire(t)
       \/ LockScan(t)
       \/ LockDelete(t)
       \/ LockRead(t)
       \/ LockMarkOne(t)
       \/ LockRelease(t)
    /\ UNCHANGED <<lastMark, driverVars, kapsoVars, graphVars, askVars, normVars, filterVars, ragVars>>

InitLock ==
    /\ DedupIdle
    /\ KapsoIdle
    /\ GraphIdle
    /\ AskIdle /\ NormIdle /\ FilterIdle /\ RagIdle
    /\ lock = 0
    /\ threads = [t \in Threads |-> IdleThread]

\* time.time() moves on while the threads run.
LockTick ==
    /\ now + TickStep <= MaxTime
    /\ now' = now + TickStep
    /\ UNCHANGED <<processed_messages, lastMark, driverVars, kapsoVars, graphVars, otherVars>>

NextLock ==
    \/ LockTick
    \/ \E t \in Threads : LockStep(t)

SpecLock == InitLock /\ [][NextLock]_vars

(***************************************************************************)
(* SpecFilter: the filter of search_rag and of _build_filter, built from   *)
(* a Constraints of any shape.                                             *)
(***************************************************************************)
TextValues == {None, "", "shoes"}

PriceValues == {NoPrice, 0, 50, 100}

ConstraintValues ==
    [category : TextValues, brand : TextValues, color : TextValues, size : TextValues,
     price_min : PriceValues, price_max : PriceValues]

NoFilters == [built |-> FALSE, search_rag |-> <<>>, build_filter |-> <<>>]

BuildFilters ==
    /\ ~filters.built
    /\ filters' = [built |-> TRUE,
                   search_rag |-> search_rag_filter(filter_constraints),
                   build_filter |-> build_filter(filter_constraints)]
    /\ UNCHANGED <<filter_constraints, askVars, normVars, lockVars, ragVars>>
    /\ UNCHANGED <<processed_messages, now, lastMark, driverVars, kapsoVars, graphVars>>

InitFilter ==
    /\ DedupIdle
    /\ KapsoIdle
    /\ GraphIdle
    /\ AskIdle /\ NormIdle /\ LockIdle /\ RagIdle
    /\ filter_constraints \in ConstraintValues
    /\ filters = NoFilters

NextFilter == BuildFilters

SpecFilter == InitFilter /\ [][NextFilter]_vars

(***************************************************************************)
(* SpecSearch: search_rag called on a state of any shape, with the         *)
(* responses of the embedding model and the vector store kept.             *)
(***************************************************************************)
SearchKeywordLists == KeywordLists \cup {<<"shirt", "black", "cotton", "slim">>}

SearchIntents ==
    {IntentClassification(t, 100, k, NoConstraints) :
        t \in KnownIntentTypes, k \in SearchKeywordLists}

SearchIdeaQueryLists ==
    IdeaQueryLists \cup {<<"jacket", "boots", "coat", "umbrella", "hat">>}

SearchIdeas == {NoIdeas} \cup {ProductIdeas(q, "rain gear") : q \in SearchIdeaQueryLists}

\* The call has not returned.
NoSearchResult ==
    [final_products |-> <<>>, response_message |-> "", searched |-> <<>>, calls |-> <<>>,
     seen_ids |-> {}]

\* search_rag(state): the call returns.
SearchRagCall ==
    /\ ~rag.done
    /\ rag' = [rag EXCEPT !.done = TRUE,
                          !.out = search_rag(rag.raw_query, rag.intent, rag.product_ideas,
                                             rag.responses)]
    /\ UNCHANGED <<askVars, normVars, lockVars, filterVars>>
    /\ UNCHANGED <<processed_messages, now, lastMark, driverVars, kapsoVars, graphVars>>

InitSearch ==
    /\ DedupIdle
    /\ KapsoIdle
    /\ GraphIdle
    /\ AskIdle /\ NormIdle /\ LockIdle /\ FilterIdle
    /\ rag \in [raw_query : {"black shirt"}, intent : SearchIntents,
                 product_ideas : SearchIdeas,
                 responses : [1..MaxQueries -> Responses],
                 done : {FALSE}, out : {NoSearchResult}]

NextSearch == SearchRagCall

SpecSearch == InitSearch /\ [][NextSearch]_vars

(***************************************************************************)
(* SpecDedup: a driver that calls the API of MessageDeduplicator.          *)
(***************************************************************************)
InitDedup ==
    /\ processed_messages = EmptyCache
    /\ now = 0
    /\ lastOp = NoOp
    /\ prevOp = NoOp
    /\ lastMark = [k \in MessageIds |-> -1]
    /\ KapsoIdle
    /\ GraphIdle
    /\ OtherIdle

\* time.time() moves on.
Tick ==
    /\ now + TickStep <= MaxTime
    /\ now' = now + TickStep
    /\ UNCHANGED <<processed_messages, lastMark, driverVars, kapsoVars, graphVars, otherVars>>

CallCheck(ids) ==
    LET r == are_messages_already_processed(processed_messages, ids, now)
    IN  /\ processed_messages' = r.cache
        /\ prevOp' = lastOp
        /\ lastOp' = [op |-> "check", ids |-> ids, time |-> now, result |-> r.result]
        /\ UNCHANGED <<now, lastMark, kapsoVars, graphVars, otherVars>>

CallMark(ids) ==
    /\ processed_messages' = mark_messages_as_processed(processed_messages, ids, now)
    /\ prevOp' = lastOp
    /\ lastOp' = [op |-> "mark", ids |-> ids, time |-> now, result |-> FALSE]
    /\ lastMark' = [k \in MessageIds |-> IF k \in Range(ids) THEN now ELSE lastMark[k]]
    /\ UNCHANGED <<now, kapsoVars, graphVars, otherVars>>

CallStats ==
    /\ processed_messages' = get_cache_stats(processed_messages, now).cache
    /\ prevOp' = lastOp
    /\ lastOp' = [op |-> "stats", ids |-> <<>>, time |-> now, result |-> FALSE]
    /\ UNCHANGED <<now, lastMark, kapsoVars, graphVars, otherVars>>

NextDedup ==
    \/ Tick
    \/ \E ids \in IdLists : CallCheck(ids)
    \/ \E ids \in IdLists : CallMark(ids)
    \/ CallStats

SpecDedup == InitDedup /\ [][NextDedup]_vars

(***************************************************************************)
(* SpecKapso: concurrent webhook deliveries on one event loop.             *)
(***************************************************************************)
InitKapso ==
    /\ processed_messages = EmptyCache
    /\ now = 0
    /\ lastOp = NoOp
    /\ prevOp = NoOp
    /\ lastMark = [k \in MessageIds |-> -1]
    /\ KapsoIdle
    /\ GraphIdle
    /\ OtherIdle

NextKapso ==
    \/ Tick
    \/ \E d \in Deliveries, w \in Webhooks : Deliver(d, w)
    \/ \E d \in Deliveries : UseKapsoCheck(d)
    \/ \E d \in Deliveries : UseKapsoMark(d)
    \/ \E d \in Deliveries : HandleResponse(d)
    \/ \E d \in Deliveries, read_outcome \in ReadOutcomes : AfterReadMark(d, read_outcome)
    \/ \E d \in Deliveries, outcome \in AgentOutcomes : AfterAgent(d, outcome)
    \/ \E d \in Deliveries, sent \in 0..2, raised \in BOOLEAN : AfterSend(d, sent, raised)

SpecKapso == InitKapso /\ [][NextKapso]_vars

\* The steps a coroutine takes by itself once the event loop runs it. The
\* steps that follow an await (AfterReadMark, AfterAgent, AfterSend) wait
\* for what was awaited to end, which the event loop does not decide.
LoopStep ==
    \E d \in Deliveries : UseKapsoCheck(d) \/ UseKapsoMark(d) \/ HandleResponse(d)

\* The event loop runs every coroutine that is ready.
SpecKapsoFair == SpecKapso /\ WF_vars(LoopStep)

(***************************************************************************)
(* Claims about the dedup gate of use_kapso (SpecKapso).                   *)
(***************************************************************************)
message_ids_of(d) == extract_message_ids_from_webhook(webhook[d])

\* The delivery got past the duplicate check and the mark.
Accepted(d) ==
    \/ pc[d] \in {"handle", "await_read", "await_agent", "await_send"}
    \/ pc[d] = "done" /\ result[d] \in {ResultOmitted, ResultSent, ResultError}

SharesId(d, e) == Range(message_ids_of(d)) \cap Range(message_ids_of(e)) # {}

\* C1: of the deliveries that carry the same message id, at most one gets
\* past check-then-mark within a TTL window, under every interleaving the
\* event loop admits: a delivery reaches handle_response only when none of
\* its ids was marked (by any delivery) within the last ttl_seconds.
C1_AtMostOnePassesWithinTtl ==
    [][\A d \in Deliveries :
          (pc[d] = "mark" /\ pc'[d] = "handle") =>
              \A k \in Range(message_ids_of(d)) :
                  lastMark[k] = -1 \/ now - lastMark[k] > ttl_seconds]_vars

\* Two deliveries with a common id were pending together (d2 arrived first,
\* d1 ran first): d1 is inside handle_response, d2 was dropped as duplicate.
C1_Witness ==
    \E d1, d2 \in Deliveries :
        /\ d2 < d1
        /\ SharesId(d1, d2)
        /\ pc[d1] \in {"await_read", "await_agent", "await_send"}
        /\ pc[d2] = "done" /\ result[d2] = ResultDuplicate

\* C2: a delivery whose payload is identical to one already accepted, and
\* whose ids were all marked within the last ttl_seconds, returns at its
\* duplicate check the success mapping with processed = False and
\* duplicate = True; a delivery that returned it never had its messages
\* read-marked, never had the agent invoked and sent no reply.
C2_RedeliveryShortCircuits ==
    /\ [][\A d \in Deliveries :
            ( /\ pc[d] = "start" /\ pc'[d] # "start"
              /\ webhook[d].type = Received
              /\ message_ids_of(d) # <<>>
              /\ \E e \in Deliveries \ {d} : webhook[e] = webhook[d] /\ Accepted(e)
              /\ \A k \in Range(message_ids_of(d)) :
                    lastMark[k] >= 0 /\ now - lastMark[k] <= ttl_seconds )
            => (pc'[d] = "done" /\ result'[d] = ResultDuplicate)]_vars
    /\ [](\A d \in Deliveries :
            result[d] = ResultDuplicate =>
                /\ pc[d] = "done"
                /\ result[d].status = "success" /\ result[d].processed = "False"
                /\ hist[d] = NoHist)

\* The first delivery was answered by the agent; the same payload came again
\* and was dropped.
C2_Witness ==
    \E d, e \in Deliveries :
        /\ e < d
        /\ webhook[e] = webhook[d]
        /\ webhook[d].type = Received
        /\ message_ids_of(d) # <<>>
        /\ pc[e] = "done" /\ result[e] = ResultSent /\ hist[e].agent_calls = 1
        /\ pc[d] = "done" /\ result[d] = ResultDuplicate

(***************************************************************************)
(* Claims about MessageDeduplicator (SpecDedup).                           *)
(***************************************************************************)
\* C3: for a non-empty key list K, a check of K that directly follows a mark
\* of K (no more than ttl_seconds later) returns True; and a check of K made
\* when every key of K was last marked more than ttl_seconds ago (or never)
\* returns False, at every such call.
C3_MarkThenCheckThenExpiry ==
    /\ ( /\ prevOp.op = "mark" /\ lastOp.op = "check"
         /\ lastOp.ids # <<>>
         /\ Range(lastOp.ids) = Range(prevOp.ids)
         /\ lastOp.time - prevOp.time <= ttl_seconds )
       => lastOp.result = TRUE
    /\ ( /\ lastOp.op = "check"
         /\ lastOp.ids # <<>>
         /\ \A k \in Range(lastOp.ids) :
               lastMark[k] = -1 \/ lastOp.time - lastMark[k] > ttl_seconds )
       => lastOp.result = FALSE

\* Two checks in a row of keys that were marked and have expired: both False.
C3_Witness ==
    /\ prevOp.op = "check" /\ lastOp.op = "check"
    /\ lastOp.ids # <<>> /\ prevOp.ids = lastOp.ids
    /\ \A k \in Range(lastOp.ids) :
          lastMark[k] >= 0 /\ prevOp.time - lastMark[k] > ttl_seconds
    /\ prevOp.result = FALSE /\ lastOp.result = FALSE

(***************************************************************************)
(* The workflow graph: claims C4 to C10.                                   *)
(***************************************************************************)
Ran(n) == \E i \in 1..Len(trace) : trace[i] = n

TimesRan(n) == Cardinality({i \in 1..Len(trace) : trace[i] = n})

Position(n) == CHOOSE i \in 1..Len(trace) : trace[i] = n

\* The node that followed classify_intent, or the one about to.
AfterClassify == IF Len(trace) >= 2 THEN trace[2] ELSE node

NoDuplicates(seq) == \A i, j \in 1..Len(seq) : seq[i] = seq[j] => i = j

\* C4: a turn whose classified intent is off_topic, whatever its confidence,
\* has an empty item list and notification_sent false, and runs neither
\* generate_ideas nor search_rag (no query reaches the vector store) nor
\* send_notification.
C4_OffTopicRunsNothing ==
    intent.intent_type = "off_topic" =>
        /\ final_products = <<>>
        /\ notification_sent = FALSE
        /\ searches = <<>>
        /\ emails = 0
        /\ ~Ran("generate_ideas")
        /\ ~Ran("search_rag")
        /\ ~Ran("send_notification")

C4_Witness ==
    /\ node = "END"
    /\ intent.intent_type = "off_topic"
    /\ intent.confidence = 100
    /\ trace = <<"classify_intent", "off_topic_end">>

\* C5: the list search_rag returns has at most 8 cards and no product_id
\* twice, whatever the plan and the responses of the vector store.
C5_AtMostEightNoDuplicate ==
    Ran("search_rag") =>
        /\ Len(final_products) <= 8
        /\ NoDuplicates(final_products)

C7_Expected(type) ==
    CASE type = "contextual_use_case" -> "generate_ideas"
      [] type = "direct_product_search" -> "search_rag"
      [] type = "off_topic" -> "off_topic_end"
      [] OTHER -> "off_topic_end"

\* C7: after classify_intent the graph goes to generate_ideas for a
\* contextual intent, to search_rag for a direct search, to off_topic_end
\* for off_topic and for any type it does not know; generate_ideas runs in
\* a turn exactly when the intent is contextual.
C7_RoutingTotal ==
    /\ Ran("classify_intent") =>
           /\ AfterClassify = C7_Expected(intent.intent_type)
           /\ AfterClassify \in {"generate_ideas", "search_rag", "off_topic_end"}
    /\ Ran("generate_ideas") => intent.intent_type = "contextual_use_case"
    /\ node = "END" => (Ran("generate_ideas") <=> intent.intent_type = "contextual_use_case")

C7_Witness ==
    /\ node = "END"
    /\ intent.intent_type = "weather_question"
    /\ trace = <<"classify_intent", "off_topic_end">>

GraphNodes ==
    {"classify_intent", "generate_ideas", "search_rag", "send_notification", "off_topic_end"}

\* C8: in every run each node of the graph executes at most once, and the
\* run reaches the terminal state.
C8_OnceEachAndTerminates ==
    /\ [](\A n \in GraphNodes : TimesRan(n) <= 1)
    /\ <>(node = "END")

C8_Witness ==
    /\ node = "END"
    /\ trace = <<"classify_intent", "generate_ideas", "search_rag", "send_notification">>
    /\ Len(searches) = 3

\* C9: classify_intent is the first stage of a turn; generate_ideas, when
\* it runs, precedes search_rag; search_rag precedes send_notification;
\* a path that is not the off-topic one runs search_rag and then
\* send_notification, once, before it ends.
C9_StageOrder ==
    /\ trace # <<>> => trace[1] = "classify_intent"
    /\ node # "classify_intent" => Ran("classify_intent")
    /\ Ran("generate_ideas") /\ Ran("search_rag") =>
           Position("generate_ideas") < Position("search_rag")
    /\ Ran("send_notification") =>
           Ran("search_rag") /\ Position("search_rag") < Position("send_notification")
    /\ node = "search_rag" /\ intent.intent_type = "contextual_use_case" =>
           Ran("generate_ideas")
    /\ node = "END" /\ ~Ran("off_topic_end") =>
           /\ TimesRan("search_rag") = 1
           /\ TimesRan("send_notification") = 1
           /\ trace[Len(trace)] = "send_notification"

C9_Witness ==
    /\ node = "END"
    /\ trace = <<"classify_intent", "generate_ideas", "search_rag", "send_notification">>
    /\ notification_sent

\* C10: when the completion call of the classification fails, or its text
\* cannot be parsed into an intent, classify_intent yields a direct search
\* of confidence 0.5 whose only keyword is the raw query, with empty
\* constraints; the turn goes to search_rag, which searches the raw query
\* and nothing else.
C10_FallbackIntent ==
    llm_classify \in LlmFailures \cup {"rejected"} =>
        /\ intent.intent_type = "direct_product_search"
        /\ intent.confidence = 50
        /\ intent.extracted_keywords = <<raw_query>>
        /\ intent.inferred_constraints =
               [category |-> None, brand |-> None, color |-> None, size |-> None,
                price_min |-> NoPrice, price_max |-> NoPrice]
        /\ AfterClassify = "search_rag"
        /\ ~Ran("generate_ideas")
        /\ Ran("search_rag") => searches = <<raw_query>>

C10_Witness ==
    /\ llm_classify = "not_json"
    /\ node = "END"
    /\ searches = <<raw_query>>
    /\ trace = <<"classify_intent", "search_rag", "send_notification">>

(***************************************************************************)
(* The retrieval filter and the searches of a turn: claims C19 and C20.    *)
(***************************************************************************)
\* A text field of Constraints that is set: not None and not empty.
C19_Present(v) == v # None /\ v # ""

\* The conditions the claim gives the filter of Constraints c.
C19_Expected(c) ==
    {[key |-> "in_stock", kind |-> "match", value |-> "True", gte |-> NoPrice, lte |-> NoPrice]}
    \cup {[key |-> "category", kind |-> "match", value |-> c.category,
           gte |-> NoPrice, lte |-> NoPrice] : x \in {1} \cap (IF C19_Present(c.category) THEN {1} ELSE {})}
    \cup {[key |-> "brand", kind |-> "match", value |-> c.brand,
           gte |-> NoPrice, lte |-> NoPrice] : x \in {1} \cap (IF C19_Present(c.brand) THEN {1} ELSE {})}
    \cup {[key |-> "colors", kind |-> "match", value |-> c.color,
           gte |-> NoPrice, lte |-> NoPrice] : x \in {1} \cap (IF C19_Present(c.color) THEN {1} ELSE {})}
    \cup {[key |-> "sizes", kind |-> "match", value |-> c.size,
           gte |-> NoPrice, lte |-> NoPrice] : x \in {1} \cap (IF C19_Present(c.size) THEN {1} ELSE {})}
    \cup {[key |-> "price", kind |-> "range", value |-> None,
           gte |-> c.price_min, lte |-> c.price_max] :
              x \in {1} \cap (IF c.price_min # NoPrice \/ c.price_max # NoPrice THEN {1} ELSE {})}

C20_Plan == search_queries_of(raw_query, intent, product_ideas)

C20_FirstThree ==
    [i \in 1..(IF Len(C20_Plan) < 3 THEN Len(C20_Plan) ELSE 3) |-> C20_Plan[i]]

\* C20: in a turn search_rag makes at most 3 searches, one for each of the
\* first 3 entries of the plan whose embedding did not fail, in plan order,
\* none for a later entry; each asks for at most 4 candidates and all carry
\* the same filter.
C20_AtMostThreeSearches ==
    Ran("search_rag") =>
        /\ Len(search_calls) <= 3
        /\ searches = C20_FirstThree
        /\ \E f \in [1..Len(search_calls) -> 1..Len(C20_FirstThree)] :
              /\ \A i, j \in 1..Len(search_calls) : i < j => f[i] < f[j]
              /\ \A i \in 1..Len(search_calls) : search_calls[i].query = C20_FirstThree[f[i]]
        /\ \A i \in 1..Len(search_calls) :
              /\ search_calls[i].limit <= 4
              /\ search_calls[i].query_filter = search_calls[1].query_filter

C20_Witness ==
    /\ Ran("search_rag")
    /\ Len(C20_Plan) = 4
    /\ Len(search_calls) = 3
    /\ search_calls[3].query = C20_Plan[3]
    /\ Len(final_products) = 9

(***************************************************************************)
(* Failures of the services behind ask_agent_logic: claim C11.             *)
(***************************************************************************)
\* C11: no failure of the completion service, the embedding or the vector
\* store leaves a turn as an unhandled error: the call always returns a
\* response, at worst the fallback one with no items.
C11_AlwaysReturns ==
    ask.pc = "done" =>
        /\ ask.outcome = "returned"
        /\ ask.response # None

(***************************************************************************)
(* The webhook normalizer: claims C12 and C13.                             *)
(***************************************************************************)
\* Every optional part of the item is either absent or as Kapso sends it.
C12_OnlyMissing(item) ==
    /\ item.shape = "mapping"
    /\ item.message.shape \in {"missing", "mapping"}
    /\ item.message.message_type # None
    /\ item.message.text.shape \in {"missing", "mapping"}
    /\ item.conversation.shape \in {"missing", "mapping"}
    /\ item.whatsapp_config.shape \in {"missing", "mapping"}
    /\ item.batch_info.shape \in {"missing", "mapping"}

\* C12: for a raw event whose optional fields (message, message_type or
\* type, content, conversation, whatsapp_config, batch_info,
\* phone_number_id) are missing, normalize_kapso_webhook returns a list
\* without raising, and every message of the list has a message type.
C12_MissingFieldsTyped ==
    ( /\ normalized.done
      /\ raw_event.shape = "mapping" /\ raw_event.data_shape \in {"missing", "list"}
      /\ \A i \in 1..Len(raw_event.data) : C12_OnlyMissing(raw_event.data[i]) )
    => /\ ~normalized.raised
       /\ \A i \in 1..Len(normalized.list) :
             normalized.list[i].message.message_type \notin {Missing, None}

\* The item is a mapping and its conversation, whatsapp_config and
\* batch_info are mappings or absent.
C13_WellFormed(item) ==
    /\ item.shape = "mapping"
    /\ item.conversation.shape \in {"missing", "mapping"}
    /\ item.whatsapp_config.shape \in {"missing", "mapping"}
    /\ item.batch_info.shape \in {"missing", "mapping"}

\* C13: normalize_kapso_webhook never fails because of one malformed item:
\* it skips that item and returns the normalized form of the others; for a
\* payload that is not a mapping it returns the empty list.
C13_BadItemSkipped ==
    normalized.done =>
        /\ ~normalized.raised
        /\ raw_event.shape # "mapping" => normalized.list = <<>>
        /\ Len(normalized.list) =
               Cardinality({i \in 1..Len(raw_event.data) : C13_WellFormed(raw_event.data[i])})

(***************************************************************************)
(* The dedup cache: claims C14, C15 and C17.                               *)
(***************************************************************************)
\* The delivery carries messages, none of them with an id.
C14_NoKeys(d) ==
    /\ webhook[d].type = Received
    /\ webhook[d].data # <<>>
    /\ message_ids_of(d) = <<>>

\* C14: a webhook that yields no key is new in every cache state: the check
\* of the empty list returns False, the mark of the empty list leaves the
\* cache as it is, and the delivery goes from its check to its mark and on
\* to handle_response.
C14_NoKeysAlwaysNew ==
    /\ [](/\ are_messages_already_processed(processed_messages, <<>>, now).result = FALSE
          /\ mark_messages_as_processed(processed_messages, <<>>, now) = processed_messages)
    /\ [][\A d \in Deliveries :
            C14_NoKeys(d) =>
                /\ (pc[d] = "start" /\ pc'[d] # "start") => pc'[d] = "mark"
                /\ (pc[d] = "mark" /\ pc'[d] # "mark") =>
                       (pc'[d] = "handle" /\ processed_messages' = processed_messages)]_vars

\* A delivery without ids is inside handle_response while the cache holds
\* the ids of another one.
C14_Witness ==
    \E d \in Deliveries :
        /\ C14_NoKeys(d)
        /\ pc[d] \in {"await_read", "await_agent", "await_send"}
        /\ processed_messages # EmptyCache

\* C15: a check returns True exactly when one of its keys was marked no
\* more than ttl_seconds before the check; and an entry stays in the cache,
\* with the time of its mark, as long as its age is at most ttl_seconds.
C15_TrueIffUnexpiredKey ==
    /\ lastOp.op = "check" =>
           ( lastOp.result = TRUE <=>
               \E k \in Range(lastOp.ids) :
                   lastMark[k] >= 0 /\ lastOp.time - lastMark[k] <= ttl_seconds )
    /\ \A k \in MessageIds :
           (lastMark[k] >= 0 /\ now - lastMark[k] <= ttl_seconds) =>
               (k \in DOMAIN processed_messages /\ processed_messages[k] = lastMark[k])

\* A check of two keys, the first never marked, the second marked exactly
\* ttl_seconds before: True.
C15_Witness ==
    /\ lastOp.op = "check"
    /\ lastOp.ids = <<"m1", "m2">>
    /\ lastMark["m1"] = -1
    /\ lastMark["m2"] >= 0 /\ lastOp.time - lastMark["m2"] = ttl_seconds
    /\ lastOp.result = TRUE

\* C17, as claimed: right after a check (of any key list, the empty one
\* too) or a get_cache_stats returns, the cache holds no entry older than
\* ttl_seconds.
C17_CleanupOnEveryRead ==
    (lastOp.op \in {"check", "stats"} /\ now = lastOp.time) =>
        \A k \in DOMAIN processed_messages : now - processed_messages[k] <= ttl_seconds

\* C17, amended: right after a check of a non-empty key list or a
\* get_cache_stats returns, the cache holds no entry older than ttl_seconds.
C17_CleanupOnNonEmptyRead ==
    ( /\ lastOp.op \in {"check", "stats"}
      /\ lastOp.op = "check" => lastOp.ids # <<>>
      /\ now = lastOp.time ) =>
        \A k \in DOMAIN processed_messages : now - processed_messages[k] <= ttl_seconds

\* A key was marked, more than ttl_seconds went by, and the check of
\* another key purged it.
C17_Witness ==
    /\ prevOp.op = "mark" /\ prevOp.ids = <<"m1">>
    /\ lastOp.op = "check" /\ lastOp.ids = <<"m2">>
    /\ now = lastOp.time
    /\ lastOp.time - prevOp.time > ttl_seconds
    /\ "m1" \notin DOMAIN processed_messages

(***************************************************************************)
(* The keys of the dedup gate: claim C16.                                  *)
(***************************************************************************)
\* The wa: keys of a delivery.
C16_WaKeys(d) ==
    {k \in Range(extract_message_ids(webhook[d].data)) : k[1] = "wa"}

\* C16: the gate keys a message by its whatsapp_message_id when it has one:
\* of two deliveries within ttl_seconds that carry the same
\* whatsapp_message_id at most one gets past the gate, also when their
\* internal ids differ. (Every delivery of a run whose clock has not passed
\* ttl_seconds is within ttl_seconds of every other.)
C16_SameWaIdIsDuplicate ==
    now <= ttl_seconds =>
        \A d, e \in Deliveries :
            (d # e /\ C16_WaKeys(d) \cap C16_WaKeys(e) # {}) =>
                ~(Accepted(d) /\ Accepted(e))

(***************************************************************************)
(* The lock of the dedup cache: claim C18.                                 *)
(***************************************************************************)
\* The thread is part-way through a mark or a cleanup.
C18_Partial(t) ==
    \/ threads[t].pc = "mark" /\ threads[t].todo # <<>> /\ threads[t].todo # threads[t].ids
    \/ threads[t].pc = "delete" /\ threads[t].todo # <<>>

\* C18: whatever reads or writes processed_messages (check, mark, cleanup,
\* stats) runs with the cache's lock held: a thread inside such an
\* operation holds the lock, no two threads are inside at once, and no
\* thread reads the map while another is part-way through a mark or a
\* cleanup.
C18_OneThreadInside ==
    /\ \A t \in Threads : InsideLock(t) => lock = t
    /\ \A t, u \in Threads : (t # u /\ InsideLock(t)) => ~InsideLock(u)
    /\ \A t, u \in Threads :
          (t # u /\ threads[t].pc \in {"scan", "read"}) => ~C18_Partial(u)

\* One thread has marked the first of its two ids; the other waits for the
\* lock with a check.
C18_Witness ==
    \E t, u \in Threads :
        /\ threads[t].pc = "mark" /\ threads[t].ids = <<"m1", "m2">>
        /\ threads[t].todo = <<"m2">>
        /\ threads[u].pc = "acquire" /\ threads[u].op = "check"

(***************************************************************************)
(* The merge across the queries of a turn: claim C21.                      *)
(***************************************************************************)
\* The entries of the plan the loop of search_rag went through.
C21_Entries == 1..Len(rag.out.searched)

\* The hits the store returned for entry i; none when the embedding or the
\* search raised.
C21_Hits(i) ==
    IF rag.responses[i].embedded /\ rag.responses[i].ok THEN rag.responses[i].hits ELSE <<>>

\* A card could be made from every hit of the turn.
C21_AllCardsBuilt ==
    \A i \in C21_Entries : \A j \in DOMAIN C21_Hits(i) : C21_Hits(i)[j].card_ok

\* Where the store returned product p: <<plan position, hit position>>.
C21_Positions(p) ==
    {a \in C21_Entries \X (1..SearchLimit) :
        a[2] \in DOMAIN C21_Hits(a[1]) /\ C21_Hits(a[1])[a[2]].product_id = p}

C21_Before(a, b) == a[1] < b[1] \/ (a[1] = b[1] /\ a[2] < b[2])

\* The first query that returned p, and p's place among its hits.
C21_First(p) ==
    CHOOSE a \in C21_Positions(p) : \A b \in C21_Positions(p) : a = b \/ C21_Before(a, b)

C22_Answered(i) == rag.responses[i].embedded /\ rag.responses[i].ok

\* The entries of the plan that did not fail, in plan order.
C22_Kept == SelectSeq([i \in 1..Len(rag.out.searched) |-> i], C22_Answered)

\* What the loop of search_rag gives for the plan without its failed entries.
C22_WithoutFailed ==
    search_from(1, [k \in 1..Len(C22_Kept) |-> rag.out.searched[C22_Kept[k]]],
                [k \in 1..Len(C22_Kept) |-> rag.responses[C22_Kept[k]]],
                search_rag_filter(rag.intent.inferred_constraints),
                [all |-> <<>>, seen |-> {}, calls |-> <<>>])

C23_PlanSize ==
    (Ran("search_rag") /\ response_message # "redirect") =>
        /\ Len(search_queries_of(raw_query, intent, product_ideas)) >= 1
        /\ Len(search_queries_of(raw_query, intent, product_ideas)) <= 4

C25_IdeasFallback ==
    (Ran("generate_ideas") /\ llm_ideas = "failed") =>
        /\ product_ideas = ProductIdeas(<<raw_query>>, "General product search")
        /\ node \in {"search_rag", "send_notification", "END"}
        /\ Ran("search_rag") =>
              /\ searches = <<raw_query>>
              /\ Len(search_calls) <= 1
              /\ \A i \in 1..Len(search_calls) : search_calls[i].query = raw_query

\* The completion call failed and the search for the raw query found cards.
C25_Witness ==
    /\ Ran("search_rag")
    /\ llm_ideas = "failed"
    /\ Len(search_calls) = 1
    /\ search_calls[1].query = raw_query
    /\ final_products = <<1, 2, 3, 4>>
    /\ response_message = "based on context"

(***************************************************************************)
(* The fields of a normalized item: claims C26 to C29.                     *)
(***************************************************************************)
\* C26: for every message item the normalized message_type is the explicit
\* message_type field when the message carries one, also when it carries a
\* type field as well, and otherwise the message's type field.
C26_MessageType ==
    (normalized.done /\ ~normalized.raised) =>
        \A i \in 1..Len(normalized.list) :
            LET message == raw_event.data[i].message
            IN  normalized.list[i].message.message_type =
                    IF message.message_type # Missing THEN message.message_type
                    ELSE message.type

\* A message with message_type text and type image comes out as text.
C26_Witness ==
    /\ normalized.done /\ ~normalized.raised
    /\ Len(normalized.list) = 1
    /\ raw_event.data[1].message.message_type = "text"
    /\ raw_event.data[1].message.type = "image"
    /\ normalized.list[1].message.message_type = "text"

\* C27: for every message item the normalized content is the explicit
\* content field when the message carries one; when it does not and the
\* message_type is text, it is the body of the nested text mapping; in every
\* other case (another type, or text without a usable text.body) it is the
\* empty string.
C27_Content ==
    (normalized.done /\ ~normalized.raised) =>
        \A i \in 1..Len(normalized.list) :
            LET message == raw_event.data[i].message
                text == message.text
            IN  normalized.list[i].message.content =
                    IF message.content # Missing THEN message.content
                    ELSE IF /\ normalized.list[i].message.message_type = "text"
                            /\ text.shape = "mapping" /\ text.body # Missing
                    THEN text.body
                    ELSE ""

\* C28: for every item the normalized conversation id is the explicit
\* conversation id when there is one, otherwise batch_info.conversation_id
\* when there is one, otherwise absent; batch_info never overwrites an
\* explicit id.
C28_ConversationId ==
    (normalized.done /\ ~normalized.raised) =>
        \A i \in 1..Len(normalized.list) :
            LET item == raw_event.data[i]
            IN  normalized.list[i].conversation.id =
                    IF item.conversation.id # Missing THEN item.conversation.id
                    ELSE IF item.batch_info.conversation_id # Missing
                    THEN item.batch_info.conversation_id
                    ELSE Missing

\* An item with both ids keeps the explicit one.
C28_Witness ==
    /\ normalized.done /\ ~normalized.raised
    /\ Len(normalized.list) = 1
    /\ raw_event.data[1].conversation.id = "c1"
    /\ raw_event.data[1].batch_info.conversation_id = "c9"
    /\ normalized.list[1].conversation.id = "c1"

C30_PureTransform ==
    normalized.done =>
        /\ normalized.webhook_data = raw_event
        /\ normalize_raw_webhook(normalized.webhook_data).raised = normalized.raised
        /\ normalize_raw_webhook(normalized.webhook_data).list = normalized.list

(***************************************************************************)
(* The turn of handle_response: claims C31 to C36 and C39 (SpecKapso).     *)
(***************************************************************************)
\* The delivery carries a text message with content, and its first item has
\* no conversation id.
C31_TextWithoutConversation(d) ==
    /\ webhook[d] # NoWebhook
    /\ webhook[d].type = Received
    /\ combined_message_parts(normalize_kapso_webhook(webhook[d])) # <<>>
    /\ normalize_kapso_webhook(webhook[d])[1].conversation_id = None

\* C31: a text message with content whose conversation id is missing still
\* ends its turn with an outcome that is not an error.
C31_MissingIdNeverBlocks ==
    \A d \in Deliveries :
        (C31_TextWithoutConversation(d) /\ pc[d] = "done") =>
            (result[d].kind = "dict" /\ result[d].status # "error")

C32_ConversationId(d) == normalize_kapso_webhook(webhook[d])[1].conversation_id

C33_SendFailureNotSurfaced ==
    \A d \in Deliveries :
        hist[d].send_failed =>
            /\ pc[d] = "done"
            /\ result[d].kind = "dict" /\ result[d].status # "error"
            /\ result[d] = ResultSent

\* The reply went out and the send of the product details raised.
C33_Witness ==
    \E d \in Deliveries :
        /\ hist[d].send_failed /\ hist[d].sends = 1 /\ hist[d].agent_calls = 1
        /\ hist[d].read_outcome = "success"
        /\ pc[d] = "done" /\ result[d].status = "success"

\* The turn of delivery d got into handle_response and failed there: User(...)
\* raised, the agent raised, or a send raised.
C34_Failed(d) ==
    /\ pc[d] = "done"
    /\ \/ result[d] = ResultError
       \/ hist[d].send_failed
       \/ result[d] = ResultSent /\ hist[d].agent_calls = 1 /\ hist[d].sends = 0

\* C34: every id of a delivery that got past the duplicate check was marked
\* before handle_response began (so before the agent), and stays in the
\* cache, with the time of its last mark, for as long as that mark is not
\* older than ttl_seconds, whatever became of the turn; and a redelivery of
\* the payload of a failed turn, while every id's mark is within
\* ttl_seconds, is dropped as a duplicate without reaching the agent.
C34_MarkedBeforeAgentNeverUnmarked ==
    /\ [](\A d \in Deliveries :
            Accepted(d) =>
                \A k \in Range(message_ids_of(d)) :
                    /\ lastMark[k] >= 0
                    /\ now - lastMark[k] <= ttl_seconds =>
                           /\ k \in DOMAIN processed_messages
                           /\ processed_messages[k] = lastMark[k])
    /\ [][\A d \in Deliveries :
            ( /\ pc[d] = "start" /\ pc'[d] # "start"
              /\ message_ids_of(d) # <<>>
              /\ \E e \in Deliveries \ {d} : webhook[e] = webhook[d] /\ C34_Failed(e)
              /\ \A k \in Range(message_ids_of(d)) : now - lastMark[k] <= ttl_seconds )
            => ( /\ pc'[d] = "done" /\ result'[d] = ResultDuplicate
                 /\ hist'[d].agent_calls = 0 /\ hist'[d].sends = 0 )]_vars

\* The agent raised in the first turn; the same payload came again within
\* the TTL and was dropped: the message was never answered.
C34_Witness ==
    \E d, e \in Deliveries :
        /\ e < d
        /\ webhook[e] = webhook[d]
        /\ message_ids_of(d) # <<>>
        /\ C34_Failed(e) /\ result[e] = ResultSent /\ hist[e].sends = 0
        /\ pc[d] = "done" /\ result[d] = ResultDuplicate
        /\ now > 0

\* The id is in the cache and its entry has not expired.
C35_Unexpired(k) ==
    k \in DOMAIN processed_messages /\ now - processed_messages[k] <= ttl_seconds

\* C35: a webhook with messages is accepted or dropped as a whole. When at
\* least one of its ids is in the cache and unexpired, its duplicate check
\* ends the delivery with the duplicate mapping, with nothing read-marked,
\* asked or sent, and marks none of its ids: an id that was not in the
\* cache is still not in it and an unexpired entry keeps its timestamp.
\* Otherwise the delivery goes on to its mark, no other delivery runs in
\* between, and the mark gives every one of its ids the current time.
C35_BatchAsAWhole ==
    /\ [][\A d \in Deliveries :
            ( /\ pc[d] = "start" /\ pc'[d] # "start"
              /\ webhook[d].type = Received
              /\ webhook[d].data # <<>> )
            => IF \E k \in Range(message_ids_of(d)) : C35_Unexpired(k)
               THEN /\ pc'[d] = "done" /\ result'[d] = ResultDuplicate
                    /\ hist'[d] = NoHist
                    /\ lastMark' = lastMark
                    /\ \A k \in Range(message_ids_of(d)) :
                          IF C35_Unexpired(k)
                          THEN /\ k \in DOMAIN processed_messages'
                               /\ processed_messages'[k] = processed_messages[k]
                          ELSE k \notin DOMAIN processed_messages'
               ELSE pc'[d] = "mark" /\ loop' = d]_vars
    /\ [][\A d \in Deliveries :
            (pc[d] = "mark" /\ pc'[d] # "mark")
            => /\ pc'[d] = "handle"
               /\ \A k \in Range(message_ids_of(d)) :
                     /\ k \in DOMAIN processed_messages'
                     /\ processed_messages'[k] = now]_vars
    /\ [](\A d \in Deliveries : pc[d] = "mark" => loop = d)

\* A batch with the ids m1 and m2 was dropped because m1 had been accepted
\* before; m2, never seen, is not in the cache.
C35_Witness ==
    \E d, e \in Deliveries :
        /\ Range(message_ids_of(d)) = {"m1", "m2"}
        /\ pc[d] = "done" /\ result[d] = ResultDuplicate
        /\ message_ids_of(e) = <<"m1">> /\ Accepted(e)
        /\ "m1" \in DOMAIN processed_messages
        /\ "m2" \notin DOMAIN processed_messages

\* C36: use_kapso returns, for every payload, a mapping with a status.
C36_AlwaysAMappingWithStatus ==
    \A d \in Deliveries :
        pc[d] = "done" =>
            (result[d].kind = "dict" /\ result[d].status \in {"success", "error"})

\* The message is left out of the query: its type is filtered, or nothing
\* is left of its content after trimming.
C39_Filtered(data) ==
    \/ data.message_type \in {"reaction", "sticker", "image"}
    \/ data.content \in {"", "  "}

C39_Kept(d) ==
    SelectSeq(normalize_kapso_webhook(webhook[d]), LAMBDA data : ~C39_Filtered(data))

\* C39: the query the agent is given is made of the contents of the
\* messages that are not filtered, in order, and of nothing else; a
\* delivery that got past the duplicate check and whose messages are all
\* filtered has nothing read-marked, no agent call and no reply, ends with
\* the mapping of omitted messages, and its ids are in the cache, with the
\* time of their mark, while that mark is within ttl_seconds.
C39_FilteredNeverReachAgent ==
    \A d \in Deliveries :
        /\ hist[d].agent_calls > 0 =>
               /\ Len(hist[d].query) = Len(C39_Kept(d))
               /\ \A i \in 1..Len(hist[d].query) :
                      hist[d].query[i] = C39_Kept(d)[i].content
        /\ (Accepted(d) /\ C39_Kept(d) = <<>>) =>
               /\ hist[d] = NoHist
               /\ pc[d] \in {"handle", "done"}
               /\ pc[d] = "done" => result[d] = ResultOmitted
               /\ \A k \in Range(message_ids_of(d)) :
                      /\ lastMark[k] >= 0
                      /\ now - lastMark[k] <= ttl_seconds =>
                             k \in DOMAIN processed_messages

\* A delivery with a sticker only was omitted and its id is marked; a
\* delivery with a text and a captioned image asked the agent for the text
\* alone.
C39_Witness ==
    \E d, e \in Deliveries :
        /\ Len(webhook[d].data) = 1 /\ webhook[d].data[1].message_type = "sticker"
        /\ pc[d] = "done" /\ result[d] = ResultOmitted
        /\ "m2" \in DOMAIN processed_messages
        /\ Len(webhook[e].data) = 2 /\ webhook[e].data[2].content = "foto"
        /\ hist[e].agent_calls = 1 /\ hist[e].query = <<"hola">>

(***************************************************************************)
(* The seen set of search_rag: claim C37 (SpecSearch).                     *)
(***************************************************************************)
\* C37: the seen product ids are the product_ids of the cards collected: a
\* candidate whose card could not be built is not among them.
C37_SeenAreTheCollected ==
    rag.done => rag.out.seen_ids = Range(rag.out.final_products)

(***************************************************************************)
(* The frame of a mark: claim C38 (SpecDedup).                             *)
(***************************************************************************)
\* C38: a call mark_messages_as_processed(K) leaves every key of K in the
\* cache with the current time, leaves the presence and the timestamp of
\* every other key as they were, and removes no entry, expired or not.
C38_MarkFrame ==
    [][(lastOp'.op = "mark" /\ prevOp' = lastOp /\ now' = now) =>
          LET K == Range(lastOp'.ids)
          IN  /\ \A k \in K :
                    k \in DOMAIN processed_messages' /\ processed_messages'[k] = now
              /\ \A k \in MessageIds \ K :
                    /\ (k \in DOMAIN processed_messages') = (k \in DOMAIN processed_messages)
                    /\ k \in DOMAIN processed_messages =>
                           processed_messages'[k] = processed_messages[k]
              /\ DOMAIN processed_messages \subseteq DOMAIN processed_messages']_vars

\* m1 was marked, for the second time, while the entry of m2 was older than
\* the TTL: m1 has the current time and m2 is still in the cache.
C38_Witness ==
    /\ lastOp.op = "mark" /\ lastOp.ids = <<"m1">> /\ lastOp.time = now
    /\ prevOp.op = "mark" /\ "m1" \in Range(prevOp.ids) /\ prevOp.time < now
    /\ "m1" \in DOMAIN processed_messages /\ processed_messages["m1"] = now
    /\ "m2" \in DOMAIN processed_messages
    /\ now - processed_messages["m2"] > ttl_seconds

====
